---------------------------- MODULE Spec2Model ----------------------------
(***************************************************************************)
(* Model of vibe-clipper's clipper-core: TurndownConverter.convert         *)
(* (src/src/lib/clipper-core/converters/turndown-converter.ts) and the     *)
(* URL processor (src/src/lib/clipper-core/utils/url.ts).                  *)
(*                                                                         *)
(* Strings are sequences of tokens.  A token is either one significant     *)
(* character ("\n", "\t", " ", "|", "[", "#", a digit, ...) or a word: a   *)
(* run of letters that no regular expression of the program splits.        *)
(* An HTML string is kept as the forest it parses to; Serialize turns a    *)
(* forest into tokens where the markup itself reaches the output.          *)
(***************************************************************************)
EXTENDS Integers, Sequences, FiniteSets, TLC

(***************************************************************************)
(* String primitives (JavaScript String methods used by the program).      *)
(***************************************************************************)
NL == "\n"
TAB == "\t"
SP == " "
\* the backtick character (a string literal cannot hold it)
BT == "&#96;"

IsSpace(c) == c \in {NL, TAB, SP}

\* the array whose k-th entry is f[k]
ArrayOf(f) == SubSeq(f, 1, Len(f))

RECURSIVE ConcatRange(_, _, _)
ConcatRange(ss, a, b) ==
  IF a > b THEN <<>>
  ELSE IF a = b THEN ss[a]
  ELSE ConcatRange(ss, a, (a + b) \div 2) \o ConcatRange(ss, ((a + b) \div 2) + 1, b)

\* Array.prototype.join('') over a sequence of strings
Concat(ss) == LET parts == ArrayOf(ss) IN ConcatRange(parts, 1, Len(parts))

\* Array.prototype.join(sep)
JoinWith(ss, sep) ==
  Concat([k \in 1..(2 * Len(ss) - 1) |-> IF k % 2 = 1 THEN ss[(k + 1) \div 2] ELSE sep])

\* String.prototype.repeat(n); the program only calls it with n >= 0
Repeat(s, n) == Concat([k \in 1..n |-> s])

RECURSIVE TrimStart(_)
TrimStart(s) == IF s # <<>> /\ IsSpace(Head(s)) THEN TrimStart(Tail(s)) ELSE s

RECURSIVE TrimEnd(_)
TrimEnd(s) ==
  IF s # <<>> /\ IsSpace(s[Len(s)]) THEN TrimEnd(SubSeq(s, 1, Len(s) - 1)) ELSE s

\* String.prototype.trim()
Trim(s) == TrimEnd(TrimStart(s))

RECURSIVE DropLeading(_, _)
\* s.replace(/^[set]+/, '')
DropLeading(s, set) ==
  IF s # <<>> /\ Head(s) \in set THEN DropLeading(Tail(s), set) ELSE s

RECURSIVE DropTrailing(_, _)
\* s.replace(/[set]+$/, '')
DropTrailing(s, set) ==
  IF s # <<>> /\ s[Len(s)] \in set
  THEN DropTrailing(SubSeq(s, 1, Len(s) - 1), set) ELSE s

\* s.replace(/c/g, to) for a one-character pattern c
ReplaceAll(s, c, to) == Concat([k \in DOMAIN s |-> IF s[k] = c THEN to ELSE <<s[k]>>])

\* the positions of s, in increasing order
Positions(s) == ArrayOf([k \in DOMAIN s |-> k])

\* s with the positions of `drop` removed
RemovePositions(s, drop) ==
  LET kept == SelectSeq(Positions(s), LAMBDA k : k \notin drop)
  IN ArrayOf([k \in DOMAIN kept |-> s[kept[k]]])

\* String.prototype.split(c) for a one-character separator c
Split(s, c) ==
  LET at == SelectSeq(Positions(s), LAMBDA k : s[k] = c)
  IN ArrayOf([p \in 1..(Len(at) + 1) |->
                SubSeq(s, IF p = 1 THEN 1 ELSE at[p - 1] + 1,
                          IF p > Len(at) THEN Len(s) ELSE at[p] - 1)])

StartsWith(s, p) == Len(s) >= Len(p) /\ SubSeq(s, 1, Len(p)) = p

\* the positions at which p occurs in s
Occurrences(s, p) ==
  {i \in 1..(Len(s) - Len(p) + 1) : SubSeq(s, i, i + Len(p) - 1) = p}

\* String.prototype.includes(p)
Includes(s, p) == Occurrences(s, p) # {}

Max(a, b) == IF a >= b THEN a ELSE b

\* String.prototype.toLowerCase(), on the letters written as single characters
ToLowerCase(s) ==
  LET upper == <<"A", "B", "C", "D", "E", "F", "G", "H", "I", "J", "K", "L", "M",
                 "N", "O", "P", "Q", "R", "S", "T", "U", "V", "W", "X", "Y", "Z">>
      lower == <<"a", "b", "c", "d", "e", "f", "g", "h", "i", "j", "k", "l", "m",
                 "n", "o", "p", "q", "r", "s", "t", "u", "v", "w", "x", "y", "z">>
  IN ArrayOf([k \in DOMAIN s |->
        IF \E u \in DOMAIN upper : upper[u] = s[k]
        THEN lower[CHOOSE u \in DOMAIN upper : upper[u] = s[k]] ELSE s[k]])

(***************************************************************************)
(* The document tree.  An element is [type, tag, attrs, kids], a text node *)
(* [type, text].  attrs is a function from attribute names to strings.     *)
(***************************************************************************)
NoAttrs == [a \in {} |-> <<>>]

El(tag, attrs, kids) == [type |-> "el", tag |-> tag, attrs |-> attrs, kids |-> kids]

Txt(s) == [type |-> "text", text |-> s]

IsEl(n) == n.type = "el"

\* Element.hasAttribute(a)
HasAttr(n, a) == IsEl(n) /\ a \in DOMAIN n.attrs

\* Element.getAttribute(a); a missing attribute reads as the empty (falsy) string
Attr(n, a) == IF HasAttr(n, a) THEN n.attrs[a] ELSE <<>>

\* Element.classList
ClassList(n) == {Attr(n, "class")[i] : i \in DOMAIN Attr(n, "class")} \ {SP}

RECURSIVE TextContent(_)
RECURSIVE TextContentOf(_)
\* Node.textContent
TextContent(n) == IF IsEl(n) THEN TextContentOf(n.kids) ELSE n.text
TextContentOf(kids) == Concat([k \in DOMAIN kids |-> TextContent(kids[k])])

RECURSIVE Descendants(_)
RECURSIVE DescendantsOf(_)
\* the element descendants of a node, in document order (querySelectorAll('*'))
Descendants(n) == IF IsEl(n) THEN DescendantsOf(n.kids) ELSE <<>>
DescendantsOf(kids) ==
  Concat([k \in DOMAIN kids |->
            (IF IsEl(kids[k]) THEN <<kids[k]>> ELSE <<>>) \o Descendants(kids[k])])

\* querySelectorAll(tag list) / querySelector(tag list)
QueryAll(n, tags) == SelectSeq(Descendants(n), LAMBDA d : d.tag \in tags)


(***************************************************************************)
(* Serialisation of markup that reaches the output as text: outerHTML of   *)
(* a kept or cleaned element, and the processed HTML embedded in the       *)
(* partial result.  Attributes are written in a fixed order.               *)
(***************************************************************************)
VoidElements ==
  {"area", "base", "br", "col", "command", "embed", "hr", "img", "input",
   "keygen", "link", "meta", "param", "source", "track", "wbr"}

RECURSIVE Serialize(_)
RECURSIVE SerializeAll(_)
\* Element.outerHTML / XMLSerializer.serializeToString for an element,
\* Node.textContent for a text node
Serialize(n) ==
  LET SerializeAttrs(el, names) ==
        Concat([k \in DOMAIN names |->
                  IF HasAttr(el, names[k])
                  THEN <<SP, names[k], "=", "\"">> \o el.attrs[names[k]] \o <<"\"">>
                  ELSE <<>>])
  IN
  LET AttrOrder ==
        <<"id", "class", "style", "type", "checked", "src", "srcset", "href", "alt",
          "start", "display", "alttext", "colspan", "rowspan", "align", "width",
          "data-latex", "data-lang", "xmlns">>
  IN
  IF ~IsEl(n) THEN n.text
  ELSE <<"<", n.tag>> \o SerializeAttrs(n, AttrOrder) \o <<">">>
       \o (IF n.tag \in VoidElements THEN <<>>
           ELSE SerializeAll(n.kids) \o <<"<", "/", n.tag, ">">>)
SerializeAll(kids) == Concat([k \in DOMAIN kids |-> Serialize(kids[k])])

\* the loop both processUrls and getElementHTML end with: every child
\* element through XMLSerializer, every text node as its text.  The HTML
\* string is kept as the forest its next parse yields: the same nodes, each
\* top-level element carrying the xmlns attribute the serialiser wrote
XmlSerialize(nodes) ==
  \* the namespace XMLSerializer declares on the element it serialises
  LET NamespaceOf(n) ==
        IF n.tag \in {"math", "mi", "mn", "mo", "mrow", "semantics", "annotation"}
        THEN <<"http://www.w3.org/1998/Math/MathML">>
        ELSE <<"http://www.w3.org/1999/xhtml">>
  IN
  ArrayOf([k \in DOMAIN nodes |->
     IF IsEl(nodes[k])
     THEN [nodes[k] EXCEPT !.attrs = [a \in (DOMAIN nodes[k].attrs) \cup {"xmlns"} |->
                                        IF a = "xmlns" THEN NamespaceOf(nodes[k])
                                        ELSE nodes[k].attrs[a]]]
     ELSE nodes[k]])

\* getElementHTML(element): the element's child nodes as an HTML string,
\* cut off from the element's ancestors
GetElementHTML(element) == XmlSerialize(element.kids)

(***************************************************************************)
(* The Turndown engine the converter drives (TurndownService of the        *)
(* turndown package, as configured by convert()).  A node is converted     *)
(* after its children; `anc` is the chain of its ancestors, nearest first, *)
(* `sibs` the child nodes of its parent and `i` its position among them.   *)
(***************************************************************************)
IsHTMLElement(n) ==
  \* elements of the MathML namespace: not instances of HTMLElement
  LET MathMLElements == {"math", "mi", "mn", "mo", "mrow", "semantics", "annotation"}
  IN
  IsEl(n) /\ n.tag \notin MathMLElements

IsBlock(n) ==
  LET BlockElements ==
        {"address", "article", "aside", "audio", "blockquote", "body", "canvas",
         "center", "dd", "dir", "div", "dl", "dt", "fieldset", "figcaption", "figure",
         "footer", "form", "frameset", "h1", "h2", "h3", "h4", "h5", "h6", "header",
         "hgroup", "hr", "html", "isindex", "li", "main", "menu", "nav", "noframes",
         "noscript", "ol", "output", "p", "pre", "section", "table", "tbody", "td",
         "tfoot", "th", "thead", "tr", "ul"}
  IN
  n.tag \in BlockElements

\* Node.isBlank of turndown
IsBlank(n) ==
  LET MeaningfulWhenBlank ==
        {"a", "table", "thead", "tbody", "tfoot", "th", "td", "iframe", "script",
         "audio", "video"}
  IN
  /\ n.tag \notin VoidElements
  /\ n.tag \notin MeaningfulWhenBlank
  /\ \A j \in DOMAIN TextContent(n) : IsSpace(TextContent(n)[j])
  /\ QueryAll(n, VoidElements) = <<>>
  /\ QueryAll(n, MeaningfulWhenBlank) = <<>>

Digits == {"0", "1", "2", "3", "4", "5", "6", "7", "8", "9"}

\* the number of leading '#' of s
RECURSIVE HashRun(_)
HashRun(s) == IF s # <<>> /\ Head(s) = "#" THEN 1 + HashRun(Tail(s)) ELSE 0

\* TurndownService.escape: the escapes anchored at the start of the text
\* node (-, +, =, #{1,6} followed by a space, >, digits followed by a dot)
\* and the escapes that apply anywhere
Escape(s) ==
  \* the escapes of turndown that apply anywhere in a text node
  LET EscapeAll(chars) ==
        Concat([k \in DOMAIN chars |->
                  IF chars[k] \in {"\\", "*", BT, "[", "]", "_"} THEN <<"\\", chars[k]>> ELSE <<chars[k]>>])
  IN
  LET e == EscapeAll(s) IN
  IF e = <<>> THEN e
  ELSE IF Head(e) \in {"-", "=", ">"} THEN <<"\\">> \o e
  ELSE IF Head(e) = "+" /\ Len(e) >= 2 /\ e[2] = SP THEN <<"\\">> \o e
  ELSE IF HashRun(e) \in 1..6 /\ Len(e) > HashRun(e) /\ e[HashRun(e) + 1] = SP
       THEN <<"\\">> \o e
  ELSE IF Head(e) \in Digits /\ Len(e) >= 3 /\ e[2] = "." /\ e[3] = SP
       THEN <<e[1], "\\">> \o Tail(e)
  ELSE e

\* join(output, replacement) of turndown: at most two newlines between parts
Join(output, replacement) ==
  LET s1 == DropTrailing(output, {NL})
      s2 == DropLeading(replacement, {NL})
      nls == Max(Len(output) - Len(s1), Len(replacement) - Len(s2))
  IN s1 \o SubSeq(<<NL, NL>>, 1, IF nls > 2 THEN 2 ELSE nls) \o s2

RECURSIVE CollapseWhitespace(_)
\* collapseWhitespace over a forest; the contents of pre and code are left
\* alone (preformattedCode: true)
CollapseWhitespace(kids) ==
  \* what turndown's collapseWhitespace does to the child nodes of a block:
  \* a text node of white space only, next to a block boundary, is removed
  \* (the documents of this model carry no other collapsible white space)
  LET CollapseKids(nodes) ==
        LET blank(k) == ~IsEl(nodes[k]) /\ \A j \in DOMAIN nodes[k].text : IsSpace(nodes[k].text[j])
            edge(k) == k < 1 \/ k > Len(nodes) \/ (IsEl(nodes[k]) /\ IsBlock(nodes[k]))
            keep == {k \in DOMAIN nodes : ~(blank(k) /\ (edge(k - 1) \/ edge(k + 1)))}
            RECURSIVE pick(_)
            pick(k) == IF k > Len(nodes) THEN <<>>
                       ELSE (IF k \in keep THEN <<nodes[k]>> ELSE <<>>) \o pick(k + 1)
        IN pick(1)
  IN
  LET ck == CollapseKids(kids) IN
  ArrayOf([k \in DOMAIN ck |->
     IF IsEl(ck[k]) /\ ck[k].tag \notin {"pre", "code"}
     THEN [ck[k] EXCEPT !.kids = CollapseWhitespace(ck[k].kids)]
     ELSE ck[k]])

\* the root element turndown wraps its input in
RootNode == [type |-> "el", tag |-> "x-turndown",
             attrs |-> [a \in {"id"} |-> <<"turndown-root">>], kids |-> <<>>]

(***************************************************************************)
(* Numbers in strings.                                                     *)
(***************************************************************************)
DigitChars == <<"0", "1", "2", "3", "4", "5", "6", "7", "8", "9">>

RECURSIVE ParseDigits(_, _)
ParseDigits(s, acc) ==
  LET DigitValue(c) == (CHOOSE d \in 1..10 : DigitChars[d] = c) - 1
  IN
  IF s = <<>> THEN acc ELSE ParseDigits(Tail(s), 10 * acc + DigitValue(Head(s)))

\* Number(s) for a string holding a decimal integer
ParseNumber(s) ==
  IF s # <<>> /\ Head(s) = "-" THEN 0 - ParseDigits(Tail(s), 0) ELSE ParseDigits(s, 0)

RECURSIVE NatToString(_)
NatToString(n) ==
  IF n < 10 THEN <<DigitChars[n + 1]>>
  ELSE NatToString(n \div 10) \o <<DigitChars[(n % 10) + 1]>>

\* the string a number takes when it is concatenated to a string
NumberToString(n) == IF n < 0 THEN <<"-">> \o NatToString(0 - n) ELSE NatToString(n)

(***************************************************************************)
(* Rule catalogue of TurndownConverter: the replacement functions.         *)
(***************************************************************************)
RECURSIVE CleanElement(_)
\* cleanElement: drops every attribute outside the allow-list, recursively
CleanElement(element) ==
  LET AllowedAttributes ==
        {"src", "href", "style", "align", "width", "height", "rowspan", "colspan",
         "bgcolor", "scope", "valign", "headers"}
  IN
  IF ~IsEl(element) THEN element
  ELSE [element EXCEPT
          !.attrs = [a \in (DOMAIN element.attrs) \cap AllowedAttributes |-> element.attrs[a]],
          !.kids = ArrayOf([k \in DOMAIN element.kids |-> CleanElement(element.kids[k])])]

\* (a cleaning that ran on the table itself would leave the cleaned table)
TableCleanedInPlace(table, tableClone) == tableClone

\* what the cleaning leaves of the table that is being converted: the
\* cleaning runs on the clone
TableAfterCleanup(table, tableClone) == table

\* cleanupTableHTML: the markup of the cleaned clone, and the table node as
\* the call leaves it
CleanupTableHTML(table) ==
  \* table.cloneNode(true)
  LET CloneNode(original) == original
  IN
  LET tableClone == CleanElement(CloneNode(table))
  IN [html |-> Serialize(tableClone), node |-> TableAfterCleanup(table, tableClone)]

\* table.querySelectorAll('td, th').some(colspan or rowspan)
HasComplexStructure(node) ==
  \E k \in DOMAIN QueryAll(node, {"td", "th"}) :
     LET cell == QueryAll(node, {"td", "th"})[k]
     IN HasAttr(cell, "colspan") \/ HasAttr(cell, "rowspan")

\* HTMLTableElement.rows
TableRows(node) ==
  LET RowsOf(kids) ==
        Concat([k \in DOMAIN kids |->
                  IF ~IsEl(kids[k]) THEN <<>>
                  ELSE IF kids[k].tag = "tr" THEN <<kids[k]>>
                  ELSE IF kids[k].tag \in {"thead", "tbody", "tfoot"}
                       THEN SelectSeq(kids[k].kids, LAMBDA r : IsEl(r) /\ r.tag = "tr")
                  ELSE <<>>])
  IN
  RowsOf(node.kids)

\* HTMLTableRowElement.cells
RowCells(row) == SelectSeq(row.kids, LAMBDA c : IsEl(c) /\ c.tag \in {"td", "th"})

\* the nesting level of a list item: the run of ul/ol above it
RECURSIVE ListLevel(_)
ListLevel(anc) ==
  IF anc # <<>> /\ anc[1].tag \in {"ul", "ol"} THEN 1 + ListLevel(Tail(anc)) ELSE 0

IsCheckbox(n) == n.tag = "input" /\ Attr(n, "type") = <<"checkbox">>

\* node.querySelector('input[type="checkbox"]'): the first one below the node
Checkboxes(node) == SelectSeq(Descendants(node), IsCheckbox)

\* (a numbering that takes start="0" for a missing start)
OrderedNumberZeroAsMissing(parent, index) ==
  IF Attr(parent, "start") # <<>> /\ ParseNumber(Attr(parent, "start")) # 0
  THEN ParseNumber(Attr(parent, "start")) + index - 1
  ELSE index

\* the number of an item of an ordered list
OrderedNumber(parent, index) ==
  IF Attr(parent, "start") # <<>>
  THEN ParseNumber(Attr(parent, "start")) + index - 1
  ELSE index

\* the list rule (ul, ol)
ListRule(content, node, anc) ==
  LET isTopLevel == ~(anc # <<>> /\ anc[1].tag \in {"ul", "ol"})
  IN (IF isTopLevel THEN <<NL>> ELSE <<>>) \o Trim(content) \o <<NL>>

\* the listItem rule (li)
ListItemRule(content0, node, anc, sibs, i, options) ==
  \* the task-list marker of a list item
  LET TaskListMarker(item) ==
        IF "task-list-item" \in ClassList(item) /\ Checkboxes(item) # <<>>
        THEN (IF HasAttr(Checkboxes(item)[1], "checked") THEN <<"[", "x", "]", SP>>
              ELSE <<"[", SP, "]", SP>>)
        ELSE <<>>
  IN
  \* content.replace(/<input[^>]*>/, ''): the first input tag written in content
  LET RemoveInputTag(content) ==
        LET starts == {k \in 1..(Len(content) - 1) : content[k] = "<" /\ content[k + 1] = "input"}
        IN IF starts = {} THEN content
           ELSE LET a == CHOOSE k \in starts : \A m \in starts : k <= m
                    ends == {k \in a..Len(content) : content[k] = ">"}
                IN IF ends = {} THEN content
                   ELSE LET b == CHOOSE k \in ends : \A m \in ends : k <= m
                        IN SubSeq(content, 1, a - 1) \o SubSeq(content, b + 1, Len(content))
  IN
  \* Array.from(parent.children).indexOf(node) + 1
  LET childIndex == Cardinality({k \in 1..i : IsEl(sibs[k])})
      EndsWith(s, p) == Len(s) >= Len(p) /\ SubSeq(s, Len(s) - Len(p) + 1, Len(s)) = p
  IN
  LET isTask == "task-list-item" \in ClassList(node) /\ Checkboxes(node) # <<>>
      content1 == IF isTask THEN RemoveInputTag(content0) ELSE content0
      content == JoinWith(SelectSeq(Split(DropTrailing(content1, {NL}), NL),
                                    LAMBDA line : Len(line) > 0), <<NL, TAB>>)
      level == ListLevel(anc)
      indentLevel == Max(0, level - 1)
      parent == anc[1]
      prefix == IF parent.tag = "ol"
                THEN Repeat(<<TAB>>, level - 1)
                     \o NumberToString(OrderedNumber(parent, childIndex))
                     \o <<".", SP>>
                ELSE Repeat(<<TAB>>, indentLevel) \o <<options.bulletListMarker, SP>>
  IN prefix \o TaskListMarker(node) \o Trim(content)
     \o (IF i < Len(sibs) /\ ~EndsWith(content, <<NL>>) THEN <<NL>> ELSE <<>>)

(***************************************************************************)
(* Math rules.                                                             *)
(***************************************************************************)
\* MathMLToLaTeX.convert(outerHTML) of the mathml-to-latex package: the
\* LaTeX of the semantic markup, here the text the markup carries
MathMLToLaTeX(mathElement) == TextContent(mathElement)

\* whether MathMLToLaTeX.convert throws: the package rejects a fraction
\* that does not have exactly two children
MathMLThrows(mathElement) ==
  \E k \in DOMAIN Descendants(mathElement) :
     /\ Descendants(mathElement)[k].tag = "mfrac"
     /\ Len(SelectSeq(Descendants(mathElement)[k].kids, IsEl)) # 2

First(seq) == IF seq = <<>> THEN <<>> ELSE <<seq[1]>>

\* the block and inline forms
BlockMath(latex) == <<NL, "$", "$", NL>> \o latex \o <<NL, "$", "$", NL>>

InlineMath(latex) == <<"$">> \o latex \o <<"$">>

\* the MathJax rule (mjx-container)
MathJaxRule(content, node) ==
  LET assistive == First(QueryAll(node, {"mjx-assistive-mml"}))
      math == IF assistive = <<>> THEN <<>> ELSE First(QueryAll(assistive[1], {"math"}))
  IN IF math = <<>> THEN content
     ELSE IF MathMLThrows(math[1]) THEN content
     ELSE IF Attr(math[1], "display") = <<"block">>
          THEN BlockMath(MathMLToLaTeX(math[1]))
          ELSE InlineMath(MathMLToLaTeX(math[1]))

IsTexAnnotation(n) ==
  n.tag = "annotation" /\ Attr(n, "encoding") = <<"application/x-tex">>

\* the math element extractLatex hands to MathMLToLaTeX.convert: none when
\* an attribute or an annotation declares the LaTeX
ConvertedMath(element) ==
  LET altMath == SelectSeq(QueryAll(element, {"math"}), LAMBDA m : HasAttr(m, "alttext"))
      annotation == SelectSeq(Descendants(element), IsTexAnnotation)
  IN IF \/ (element.tag = "math" /\ Attr(element, "data-latex") # <<>>)
        \/ (element.tag = "math" /\ Attr(element, "alttext") # <<>>)
        \/ (altMath # <<>> /\ Attr(altMath[1], "alttext") # <<>>)
        \/ (annotation # <<>> /\ TextContent(annotation[1]) # <<>>)
     THEN <<>>
     ELSE IF element.tag = "math" THEN <<element>>
     ELSE First(QueryAll(element, {"math"}))

\* the math rule (math, mwe-math-*)
MathRule(content, node, anc) ==
  \* extractLatex
  LET ExtractLatex(element) ==
        LET altMath == SelectSeq(QueryAll(element, {"math"}), LAMBDA m : HasAttr(m, "alttext"))
            annotation == SelectSeq(Descendants(element), IsTexAnnotation)
            mathNode == IF element.tag = "math" THEN <<element>>
                        ELSE First(QueryAll(element, {"math"}))
            img == First(QueryAll(element, {"img"}))
        IN IF element.tag = "math" /\ Attr(element, "data-latex") # <<>>
           THEN Trim(Attr(element, "data-latex"))
           ELSE IF element.tag = "math" /\ Attr(element, "alttext") # <<>>
           THEN Trim(Attr(element, "alttext"))
           ELSE IF altMath # <<>> /\ Attr(altMath[1], "alttext") # <<>>
           THEN Trim(Attr(altMath[1], "alttext"))
           ELSE IF annotation # <<>> /\ TextContent(annotation[1]) # <<>>
           THEN Trim(TextContent(annotation[1]))
           ELSE IF mathNode # <<>> THEN MathMLToLaTeX(mathNode[1])
           ELSE IF img # <<>> THEN Attr(img[1], "alt")
           ELSE <<>>
  IN
  \* node.closest('table') !== null
  LET isInTable == node.tag = "table" \/ \E k \in DOMAIN anc : anc[k].tag = "table"
      latex == Trim(ExtractLatex(node))
  IN IF ~isInTable
        /\ (Attr(node, "display") = <<"block">>
            \/ "mwe-math-fallback-image-display" \in ClassList(node))
     THEN BlockMath(latex)
     ELSE <<SP>> \o InlineMath(latex) \o <<SP>>

\* the katex rule (.math, .katex)
KatexRule(content, node) ==
  LET holders == SelectSeq(Descendants(node), LAMBDA d : "katex-mathml" \in ClassList(d))
      annotation == IF holders = <<>> THEN <<>>
                    ELSE SelectSeq(Descendants(holders[1]), IsTexAnnotation)
      mathElement == IF holders = <<>> THEN <<>> ELSE First(QueryAll(holders[1], {"math"}))
      latex == IF Attr(node, "data-latex") # <<>> THEN Attr(node, "data-latex")
               ELSE IF annotation # <<>> /\ TextContent(annotation[1]) # <<>>
               THEN TextContent(annotation[1])
               ELSE Trim(TextContent(node))
      isInline == \/ "math-inline" \in ClassList(node)
                  \/ (mathElement # <<>> /\ Attr(mathElement[1], "display") # <<"block">>)
  IN IF isInline THEN InlineMath(latex) ELSE BlockMath(latex)

(***************************************************************************)
(* Embeds and the CommonMark rules of turndown that convert() configures.  *)
(***************************************************************************)
YoutubeHosts == {"youtube.com", "www.youtube.com", "youtu.be"}

\* tokens in which /(?:twitter\.com|x\.com)/ finds a match: 'dropbox.com'
\* holds the text 'x.com'
TwitterHosts == {"twitter.com", "x.com", "platform.twitter.com", "www.dropbox.com"}

\* the embed rule: the bare image placeholder of the canonical URL when
\* one of the two patterns finds an id in src, the content otherwise
EmbedRule(content, node) ==
  \* tokens that /[a-zA-Z0-9_-]+/ matches whole, and those /\d+/ matches whole
  LET IdTokens ==
        {"abc123", "embed", "watch", "v", "user", "status", "statuses", "widgets", "s", "video",
         "123456"}
  IN
  LET NumberTokens == {"123456"}
  IN
  LET src == Attr(node, "src")
      at(k) == IF k \in DOMAIN src THEN src[k] ELSE ""
      \* (?:embed\/|watch\?v=)?([a-zA-Z0-9_-]+) matched at position j
      idAt(j) ==
        IF at(j) = "embed" /\ at(j + 1) = "/" /\ at(j + 2) \in IdTokens THEN <<at(j + 2)>>
        ELSE IF /\ at(j) = "watch" /\ at(j + 1) = "?" /\ at(j + 2) = "v" /\ at(j + 3) = "="
                /\ at(j + 4) \in IdTokens THEN <<at(j + 4)>>
        ELSE IF at(j) \in IdTokens THEN <<at(j)>>
        ELSE <<>>
      yt == {k \in DOMAIN src : src[k] \in YoutubeHosts /\ at(k + 1) = "/" /\ idAt(k + 2) # <<>>}
      \* (?:twitter\.com|x\.com)\/.*?(?:status|statuses)\/(\d+)
      tw == {k \in DOMAIN src :
               /\ src[k] \in {"status", "statuses"}
               /\ at(k + 1) = "/" /\ at(k + 2) \in NumberTokens
               /\ \E h \in 1..(k - 2) : src[h] \in TwitterHosts /\ src[h + 1] = "/"}
  IN IF src # <<>> /\ yt # {}
     THEN <<"!", "[", "]", "(", "https:", "/", "/", "www.youtube.com", "/", "watch", "?", "v", "=">>
          \o idAt((CHOOSE x \in yt : \A y \in yt : x <= y) + 2) \o <<")">>
     ELSE IF src # <<>> /\ tw # {}
     THEN <<"!", "[", "]", "(", "https:", "/", "/", "x.com", "/", "i", "/", "status", "/",
            at((CHOOSE x \in tw : \A y \in tw : x <= y) + 2), ")">>
     ELSE content

\* the heading rule of turndown
HeadingRule(content, node, options) ==
  LET HeadingLevel(n) ==
        LET Headings == <<"h1", "h2", "h3", "h4", "h5", "h6">>
        IN
        CHOOSE l \in 1..6 : Headings[l] = n.tag
  IN
  IF options.headingStyle = "setext" /\ HeadingLevel(node) < 3
  THEN <<NL, NL>> \o content \o <<NL>>
       \o Repeat(<<IF HeadingLevel(node) = 1 THEN "=" ELSE "-">>, Len(content)) \o <<NL, NL>>
  ELSE <<NL, NL>> \o Repeat(<<"#">>, HeadingLevel(node)) \o <<SP>> \o content \o <<NL, NL>>

\* the inlineLink rule of turndown (a with a non-empty href)
InlineLinkRule(content, node) ==
  <<"[">> \o content \o <<"]", "(">> \o Attr(node, "href") \o <<")">>

\* the image rule of turndown
ImageRule(node) ==
  IF Attr(node, "src") = <<>> THEN <<>>
  ELSE <<"!", "[">> \o Attr(node, "alt") \o <<"]", "(">> \o Attr(node, "src") \o <<")">>

\* the rules convert() adds, in the order of the addRule calls
RegistrationOrder ==
  <<"table", "list", "listItem", "figure", "embedToMarkdown", "highlight",
    "strikethrough", "MathJax", "math", "katex", "callout", "preformattedCode",
    "citations", "footnotesList", "removals", "removeHiddenElements">>

\* the filter of each added rule
Matches(rule, node, anc) ==
  \* the filter of the embed rule: an iframe whose src names a video or post host
  LET IsEmbed(frame) ==
        frame.tag = "iframe"
        /\ \E k \in DOMAIN Attr(frame, "src") : Attr(frame, "src")[k] \in YoutubeHosts \cup TwitterHosts
  IN
  LET MweMathClasses ==
        {"mwe-math-element", "mwe-math-fallback-image-inline", "mwe-math-fallback-image-display"}
  IN
  CASE rule = "table" -> node.tag = "table"
    [] rule = "list" -> node.tag \in {"ul", "ol"}
    [] rule = "listItem" -> node.tag = "li"
    [] rule = "figure" -> node.tag = "figure"
    [] rule = "embedToMarkdown" -> IsEmbed(node)
    [] rule = "highlight" -> node.tag = "mark"
    [] rule = "strikethrough" -> node.tag \in {"del", "s", "strike"}
    [] rule = "MathJax" -> node.tag = "mjx-container"
    [] rule = "math" -> node.tag = "math" \/ ClassList(node) \cap MweMathClasses # {}
    [] rule = "katex" -> IsHTMLElement(node) /\ ClassList(node) \cap {"math", "katex"} # {}
    [] rule = "callout" -> node.tag = "div" /\ "markdown-alert" \in ClassList(node)
    [] rule = "preformattedCode" -> node.tag = "pre"
    [] rule = "citations" -> node.tag = "sup" /\ StartsWith(Attr(node, "id"), <<"fnref:">>)
    [] rule = "footnotesList" ->
         node.tag = "ol" /\ anc # <<>> /\ Attr(anc[1], "id") = <<"footnotes">>
    [] rule = "removals" ->
         IsHTMLElement(node)
         /\ ((\E k \in DOMAIN Attr(node, "href") :
                 Attr(node, "href")[k] \in {"#fnref", "#fnref:"})
             \/ "footnote-backref" \in ClassList(node))
    [] rule = "removeHiddenElements" -> Attr(node, "style") = <<"display:none">>

\* the added rule that the first-registered-first lookup would pick
FirstAddedRuleFor(node, anc) ==
  LET matching == {k \in DOMAIN RegistrationOrder : Matches(RegistrationOrder[k], node, anc)}
  IN IF matching = {} THEN "none"
     ELSE RegistrationOrder[CHOOSE k \in matching : \A m \in matching : k <= m]

\* Rules.forNode over the added rules: addRule puts each rule at the front
\* of the array (unshift), so of the rules whose filter matches the one
\* added last is found first
AddedRuleFor(node, anc) ==
  LET matching == {k \in DOMAIN RegistrationOrder : Matches(RegistrationOrder[k], node, anc)}
  IN IF matching = {} THEN "none"
     ELSE RegistrationOrder[CHOOSE k \in matching : \A m \in matching : m <= k]

\* the rule turndown picks for an element: the blank rule, then the rules
\* convert() adds, then the CommonMark rules, the kept and the removed
\* elements, then the default
RuleFor(node, anc) ==
  IF IsBlank(node) THEN "blank"
  ELSE IF AddedRuleFor(node, anc) # "none" THEN AddedRuleFor(node, anc)
  ELSE IF node.tag = "p" THEN "paragraph"
  ELSE IF node.tag \in {"h1", "h2", "h3", "h4", "h5", "h6"} THEN "heading"
  ELSE IF node.tag = "a" /\ Attr(node, "href") # <<>> THEN "inlineLink"
  ELSE IF node.tag = "img" THEN "image"
  ELSE IF node.tag \in {"em", "i"} THEN "emphasis"
  ELSE IF node.tag = "hr" THEN "horizontalRule"
  ELSE IF node.tag \in {"iframe", "video", "audio", "sup", "sub", "svg", "math"} THEN "keep"
  ELSE IF node.tag \in {"style", "script", "button"} THEN "remove"
  ELSE "default"

\* the callout rule: the alert type from the class, and the text of the
\* alert as a quotation
CalloutRule(content, node) ==
  LET alertTypes == [c \in {"markdown-alert-note", "markdown-alert-tip",
                            "markdown-alert-important", "markdown-alert-warning",
                            "markdown-alert-caution", "markdown-alert-title"} |->
                       CASE c = "markdown-alert-note" -> "NOTE"
                         [] c = "markdown-alert-tip" -> "TIP"
                         [] c = "markdown-alert-important" -> "IMPORTANT"
                         [] c = "markdown-alert-warning" -> "WARNING"
                         [] c = "markdown-alert-caution" -> "CAUTION"
                         [] c = "markdown-alert-title" -> "TITLE"]
      typeClasses == SelectSeq(Attr(node, "class"), LAMBDA c : c \in DOMAIN alertTypes)
      titles == SelectSeq(Descendants(node),
                          LAMBDA d : "markdown-alert-title" \in ClassList(d))
      paragraphs == SelectSeq(Descendants(node),
                              LAMBDA d : d.tag = "p" /\ "markdown-alert-title" \notin ClassList(d))
      \* content.replace(title, '')
      without(title) ==
        IF ~Includes(content, title) THEN content
        ELSE LET at == CHOOSE k \in Occurrences(content, title) :
                         \A m \in Occurrences(content, title) : k <= m
             IN SubSeq(content, 1, at - 1) \o SubSeq(content, at + Len(title), Len(content))
      alertContent ==
        IF titles = <<>> \/ TextContent(titles[1]) = <<>> THEN content
        ELSE IF paragraphs # <<>> /\ TextContent(paragraphs[1]) # <<>>
             THEN TextContent(paragraphs[1])
        ELSE without(TextContent(titles[1]))
  IN <<NL, ">", SP, "[!", IF typeClasses = <<>> THEN "NOTE" ELSE alertTypes[typeClasses[1]],
       "]", NL, ">", SP>>
     \o ReplaceAll(Trim(alertContent), NL, <<NL, ">", SP>>) \o <<NL>>

\* a fenced block: the opening fence and the language, the code, and the
\* closing fence, each on its own line
FencedBlock(language, code) ==
  <<NL, BT, BT, BT>> \o language \o <<NL>> \o code \o <<NL, BT, BT, BT, NL>>

\* the preformattedCode rule without the escaping of backticks
CodeRuleUnescaped(content, node) ==
  LET codes == QueryAll(node, {"code"})
  IN IF codes = <<>> THEN content
     ELSE FencedBlock(Attr(codes[1], "data-lang"), Trim(TextContent(codes[1])))

\* the preformattedCode rule: the text of the code element between fences
CodeRule(content, node) ==
  LET codes == QueryAll(node, {"code"})
  IN IF ~IsHTMLElement(node) \/ codes = <<>> THEN content
     ELSE <<NL, BT, BT, BT>> \o Attr(codes[1], "data-lang") \o <<NL>>
          \o ReplaceAll(Trim(TextContent(codes[1])), BT, <<"\\", BT>>)
          \o <<NL, BT, BT, BT, NL>>

\* the citations rule with the whole id as the number
CitationRuleWholeId(content, node) ==
  <<"[^">> \o Tail(Attr(node, "id")) \o <<"]">>

\* the citations rule: the reference with the number before the first '-'
CitationRule(content, node) ==
  IF IsHTMLElement(node)
  THEN <<"[^">> \o Split(Tail(Attr(node, "id")), "-")[1] \o <<"]">>
  ELSE content

RECURSIVE Process(_, _, _)
RECURSIVE ReplacementForNode(_, _, _, _)
RECURSIVE Turndown(_, _)
RECURSIVE TableRule(_, _, _)
RECURSIVE FigureRule(_, _, _)
RECURSIVE FootnotesListRule(_, _, _)
RECURSIVE ProcessFrom(_, _, _, _, _)

\* the table rule: raw markup for a complex table, a pipe table otherwise;
\* every cell is converted by a call of turndown on the cell's own HTML
TableRule(content, node, options) ==
  \* the separator row: one --- per piece that split('|') finds in the first
  \* row, less the two outer ones
  LET SeparatorRow(row0) ==
        LET separatorCount == Len(Split(row0, "|")) - 2
        IN <<"|", SP>> \o JoinWith([k \in 1..separatorCount |-> <<"---">>], <<SP, "|", SP>>)
           \o <<SP, "|">>
  IN
  IF HasComplexStructure(node)
  THEN <<NL, NL>> \o CleanupTableHTML(node).html \o <<NL, NL>>
  ELSE LET rows == ArrayOf([r \in DOMAIN TableRows(node) |->
                      LET cells == ArrayOf([c \in DOMAIN RowCells(TableRows(node)[r]) |->
                                      ReplaceAll(
                                        Trim(ReplaceAll(
                                          Turndown(GetElementHTML(RowCells(TableRows(node)[r])[c]),
                                                   options), NL, <<SP>>)),
                                        "|", <<"\\", "|">>)])
                      IN <<"|", SP>> \o JoinWith(cells, <<SP, "|", SP>>) \o <<SP, "|">>])
       IN IF rows = <<>> THEN <<>>
          ELSE <<NL, NL>> \o JoinWith(<<rows[1], SeparatorRow(rows[1])>> \o Tail(rows), <<NL>>)
               \o <<NL, NL>>

\* the figure rule: the image and below it the caption, converted by a
\* call of turndown on the figcaption's own HTML
FigureRule(content, node, options) ==
  LET imgs == QueryAll(node, {"img"})
      captions == QueryAll(node, {"figcaption"})
      \* srcset.split(',%20')[0].split('%20')[0]
      firstUrl(srcset) ==
        LET spaces == SelectSeq(Positions(srcset), LAMBDA k : srcset[k] = "%20")
            piece == IF spaces = <<>> THEN srcset ELSE SubSeq(srcset, 1, spaces[1] - 1)
        IN IF spaces # <<>> /\ piece # <<>> /\ piece[Len(piece)] = ","
           THEN SubSeq(piece, 1, Len(piece) - 1) ELSE piece
      src(img) == IF firstUrl(Attr(img, "srcset")) # <<>>
                  THEN firstUrl(Attr(img, "srcset")) ELSE Attr(img, "src")
      caption == IF captions = <<>> THEN <<>>
                 ELSE Trim(Turndown(GetElementHTML(captions[1]), options))
  IN IF imgs = <<>> THEN content
     ELSE <<"!", "[">> \o Attr(imgs[1], "alt") \o <<"]", "(">> \o src(imgs[1])
          \o <<")", NL, NL>> \o caption \o <<NL, NL>>

RECURSIVE RemoveFirst(_, _)
\* the nodes without their first descendant of the tag (Element.remove())
RemoveFirst(kids, tag) ==
  IF kids = <<>> THEN <<>>
  ELSE IF IsEl(kids[1]) /\ kids[1].tag = tag THEN Tail(kids)
  ELSE IF IsEl(kids[1]) /\ QueryAll(kids[1], {tag}) # <<>>
       THEN <<[kids[1] EXCEPT !.kids = RemoveFirst(kids[1].kids, tag)]>> \o Tail(kids)
  ELSE <<kids[1]>> \o RemoveFirst(Tail(kids), tag)

\* the footnotesList rule: one definition per list item, the text of the
\* item converted by a call of turndown on the item's own HTML
FootnotesListRule(content, node, options) ==
  LET items == SelectSeq(node.kids, IsEl)
      \* the return arrow of a footnote: U+21A9 and the text selector U+FE0E
      arrow == <<"&#8617;", "&#65038;">>
      idOf(li) ==
        IF StartsWith(Attr(li, "id"), <<"fn:">>) THEN Tail(Attr(li, "id"))
        ELSE LET segments == Split(Attr(li, "id"), "/")
                 last == segments[Len(segments)]
                 noted == {k \in Occurrences(last, <<"cite_note-">>) : k < Len(last)}
             IN IF noted = {} THEN Attr(li, "id")
                ELSE SubSeq(last, (CHOOSE k \in noted : \A m \in noted : k <= m) + 1, Len(last))
      withoutSup(li) ==
        IF QueryAll(li, {"sup"}) # <<>> /\ Trim(TextContent(QueryAll(li, {"sup"})[1])) = idOf(li)
        THEN [li EXCEPT !.kids = RemoveFirst(li.kids, "sup")] ELSE li
      cleaned(referenceContent) ==
        Trim(IF Len(referenceContent) >= 2
                /\ SubSeq(referenceContent, Len(referenceContent) - 1,
                          Len(referenceContent)) = arrow
             THEN SubSeq(referenceContent, 1, Len(referenceContent) - 2)
             ELSE referenceContent)
      references == ArrayOf([k \in DOMAIN items |->
                      <<"[^">> \o ToLowerCase(idOf(items[k])) \o <<"]:", SP>>
                      \o cleaned(Turndown(GetElementHTML(withoutSup(items[k])), options))])
  IN IF IsHTMLElement(node)
     THEN <<NL, NL>> \o JoinWith(references, <<NL, NL>>) \o <<NL, NL>>
     ELSE content

\* the replacement of the rule chosen for the node
Replacement(rule, content, node, anc, i, options) ==
  CASE rule = "blank" -> IF IsBlock(node) THEN <<NL, NL>> ELSE <<>>
    [] rule \in {"removeHiddenElements", "removals", "remove"} -> <<>>
    [] rule = "katex" -> KatexRule(content, node)
    [] rule = "math" -> MathRule(content, node, anc)
    [] rule = "MathJax" -> MathJaxRule(content, node)
    [] rule = "strikethrough" -> <<"~", "~">> \o content \o <<"~", "~">>
    [] rule = "highlight" -> <<"=", "=">> \o content \o <<"=", "=">>
    [] rule = "embedToMarkdown" -> EmbedRule(content, node)
    [] rule = "listItem" -> ListItemRule(content, node, anc, anc[1].kids, i, options)
    [] rule = "list" -> ListRule(content, node, anc)
    [] rule = "table" -> TableRule(content, node, options)
    [] rule = "figure" -> FigureRule(content, node, options)
    [] rule = "callout" -> CalloutRule(content, node)
    [] rule = "preformattedCode" -> CodeRule(content, node)
    [] rule = "citations" -> CitationRule(content, node)
    [] rule = "footnotesList" -> FootnotesListRule(content, node, options)
    [] rule = "paragraph" -> <<NL, NL>> \o content \o <<NL, NL>>
    [] rule = "heading" -> HeadingRule(content, node, options)
    [] rule = "inlineLink" -> InlineLinkRule(content, node)
    [] rule = "image" -> ImageRule(node)
    [] rule = "emphasis" -> IF Trim(content) = <<>> THEN <<>>
                            ELSE <<options.emDelimiter>> \o content \o <<options.emDelimiter>>
    [] rule = "horizontalRule" -> <<NL, NL, options.hr, NL, NL>>
    [] rule = "keep" -> IF IsBlock(node) THEN <<NL, NL>> \o Serialize(node) \o <<NL, NL>>
                        ELSE Serialize(node)
    [] OTHER -> IF IsBlock(node) THEN <<NL, NL>> \o content \o <<NL, NL>> ELSE content

\* replacementForNode of turndown: the children first, then the node's rule
\* (process.call(this, node) has returned its string before the rule runs)
ReplacementForNode(node, anc, i, options) ==
  CHOOSE replacement \in
    {Replacement(RuleFor(node, anc), content, node, anc, i, options) :
       content \in {Process(node, anc, options)}} : TRUE

\* process of turndown: the joined replacements of the child nodes
ProcessFrom(parent, anc, options, k, output) ==
  IF k > Len(parent.kids) THEN output
  ELSE LET node == parent.kids[k]
           replacement ==
             IF IsEl(node) THEN ReplacementForNode(node, <<parent>> \o anc, k, options)
             ELSE IF \E a \in DOMAIN (<<parent>> \o anc) : (<<parent>> \o anc)[a].tag = "code"
                  THEN node.text
             ELSE Escape(node.text)
       IN CHOOSE written \in
            {ProcessFrom(parent, anc, options, k + 1, joined) :
               joined \in {Join(output, replaced) : replaced \in {replacement}}} : TRUE

Process(parent, anc, options) == ProcessFrom(parent, anc, options, 1, <<>>)

\* TurndownService.turndown(html): parse under the root element, convert,
\* and strip the leading and trailing white space
Turndown(html, options) ==
  IF html = <<>> THEN <<>>
  ELSE DropTrailing(
         DropLeading(Process([RootNode EXCEPT !.kids = CollapseWhitespace(html)], <<>>, options),
                     {TAB, NL}),
         {TAB, NL, SP})

(***************************************************************************)
(* URLs (the URL class of the platform, as url.ts uses it).  A URL string  *)
(* is tokenised as scheme ("https:"), "/", host, path segments, "?", "#".  *)
(***************************************************************************)
Schemes == {"http:", "https:", "data:", "chrome-extension:", "mailto:"}

\* tokens that contain a dot (String.includes('.') on one token)
DottedTokens == {"example.com", "cdn.example.com", "a.png", "b.html", ".", ".."}

\* the first position of one of the tokens of `set` in s, or Len(s) + 1
FirstOf(s, set) ==
  IF \E k \in DOMAIN s : s[k] \in set
  THEN CHOOSE k \in DOMAIN s : s[k] \in set /\ \A m \in 1..(k - 1) : s[m] \notin set
  ELSE Len(s) + 1

RECURSIVE RemoveDotSegments(_, _)
\* the path of a parsed URL: '.' and '..' segments resolved
RemoveDotSegments(segs, out) ==
  IF segs = <<>> THEN out
  ELSE LET seg == Head(segs)
           last == Len(segs) = 1
       IN IF seg = <<".">>
          THEN RemoveDotSegments(Tail(segs), IF last THEN Append(out, <<>>) ELSE out)
          ELSE IF seg = <<"..">>
          THEN RemoveDotSegments(Tail(segs),
                 LET popped == IF out = <<>> THEN out ELSE SubSeq(out, 1, Len(out) - 1)
                 IN IF last THEN Append(popped, <<>>) ELSE popped)
          ELSE RemoveDotSegments(Tail(segs), Append(out, ReplaceAll(seg, SP, <<"%20">>)))

BadUrl == [ok |-> FALSE]

RECURSIVE ParseUrl(_, _)
\* new URL(value, base): base is a parsed URL or BadUrl when there is none
ParseUrl(value, base) ==
  \* the segments of a path written with a leading '/'
  LET PathSegments(pathTokens) ==
        IF pathTokens = <<>> THEN <<<<>>>> ELSE RemoveDotSegments(Tail(Split(pathTokens, "/")), <<>>)
  IN
  LET HashOf(rest) == SubSeq(rest, FirstOf(rest, {"#"}), Len(rest))
  IN
  \* the query and fragment that follow a path
  LET QueryOf(rest) ==
        IF rest # <<>> /\ Head(rest) = "?"
        THEN SubSeq(rest, 1, FirstOf(rest, {"#"}) - 1) ELSE <<>>
  IN
  LET SpecialSchemes == {"http:", "https:"}
  IN
  LET v == Trim(value)
      pathEnd == FirstOf(v, {"?", "#"})
  IN IF v # <<>> /\ Head(v) \in Schemes
     THEN IF Len(v) >= 3 /\ v[2] = "/" /\ v[3] = "/"
          THEN LET after == SubSeq(v, 4, Len(v))
                   hostEnd == FirstOf(after, {"/", "?", "#"})
                   rest == SubSeq(after, hostEnd, Len(after))
                   pEnd == FirstOf(rest, {"?", "#"})
               IN IF hostEnd = 1 THEN BadUrl
                  ELSE [ok |-> TRUE, protocol |-> Head(v), host |-> SubSeq(after, 1, hostEnd - 1),
                        path |-> PathSegments(SubSeq(rest, 1, pEnd - 1)),
                        query |-> QueryOf(SubSeq(rest, pEnd, Len(rest))),
                        hash |-> HashOf(SubSeq(rest, pEnd, Len(rest))), opaque |-> <<>>]
          ELSE IF Head(v) \in SpecialSchemes THEN BadUrl
          ELSE [ok |-> TRUE, protocol |-> Head(v), host |-> <<>>, path |-> <<>>,
                query |-> <<>>, hash |-> <<>>, opaque |-> Tail(v)]
     ELSE IF ~base.ok \/ base.opaque # <<>> THEN BadUrl
     ELSE IF Len(v) >= 2 /\ v[1] = "/" /\ v[2] = "/"
     THEN ParseUrl(<<base.protocol>> \o v, BadUrl)
     ELSE IF v # <<>> /\ Head(v) = "/"
     THEN [base EXCEPT !.path = PathSegments(SubSeq(v, 1, pathEnd - 1)),
                       !.query = QueryOf(SubSeq(v, pathEnd, Len(v))),
                       !.hash = HashOf(SubSeq(v, pathEnd, Len(v)))]
     ELSE IF v # <<>> /\ Head(v) = "?"
     THEN [base EXCEPT !.query = QueryOf(v), !.hash = HashOf(v)]
     ELSE IF v # <<>> /\ Head(v) = "#"
     THEN [base EXCEPT !.hash = v]
     ELSE IF v = <<>> THEN [base EXCEPT !.hash = <<>>]
     ELSE [base EXCEPT
             !.path = RemoveDotSegments(
                        SubSeq(base.path, 1, Len(base.path) - 1)
                        \o Split(SubSeq(v, 1, pathEnd - 1), "/"), <<>>),
             !.query = QueryOf(SubSeq(v, pathEnd, Len(v))),
             !.hash = HashOf(SubSeq(v, pathEnd, Len(v)))]

\* URL.pathname
Pathname(url) == <<"/">> \o JoinWith(url.path, <<"/">>)

\* URL.origin
Origin(url) == <<url.protocol, "/", "/">> \o url.host

\* URL.href
Href(url) ==
  IF url.opaque # <<>> THEN <<url.protocol>> \o url.opaque
  ELSE Origin(url) \o Pathname(url) \o url.query \o url.hash

(***************************************************************************)
(* url.ts: makeUrlAbsolute and UrlProcessor.processUrls.                   *)
(***************************************************************************)
\* the base URL with a trailing file name removed from its path
ResolvedBaseUrl(baseUrl) ==
  IF baseUrl.path[Len(baseUrl.path)] # <<>>
  THEN [baseUrl EXCEPT !.path = SubSeq(baseUrl.path, 1, Len(baseUrl.path) - 1) \o <<<<>>>>]
  ELSE baseUrl

\* makeUrlAbsolute without its catch block doing nothing: a value that
\* cannot be resolved is cleared
AbsoluteValueClearedOnFailure(attributeValue, baseUrl) ==
  LET url == ParseUrl(attributeValue, ResolvedBaseUrl(baseUrl))
  IN IF attributeValue = <<>> THEN attributeValue
     ELSE IF ~url.ok THEN <<>>
     ELSE Href(url)

\* the value makeUrlAbsolute leaves in the attribute
AbsoluteValue(attributeValue, baseUrl) ==
  \* attributeValue.split('://')[1]
  LET AfterSchemeSeparator(value) ==
        LET NoString == <<"undefined">>
        IN
        LET at == {k \in 1..(Len(value) - 2) : /\ value[k] \in Schemes
                                              /\ value[k + 1] = "/" /\ value[k + 2] = "/"}
        IN IF at = {} THEN NoString
           ELSE LET k == CHOOSE x \in at : \A y \in at : x <= y
                    rest == SubSeq(value, k + 3, Len(value))
                    next == {m \in 1..(Len(rest) - 2) : /\ rest[m] \in Schemes
                                                       /\ rest[m + 1] = "/" /\ rest[m + 2] = "/"}
                IN IF next = {} THEN rest
                   ELSE SubSeq(rest, 1, (CHOOSE x \in next : \A y \in next : x <= y) - 1)
  IN
  LET resolvedBaseUrl == ResolvedBaseUrl(baseUrl)
      url == ParseUrl(attributeValue, resolvedBaseUrl)
      parts == Split(attributeValue, "/")
      firstSegment == IF Len(parts) >= 3 THEN parts[3] ELSE <<>>
  IN IF attributeValue = <<>> THEN attributeValue
     ELSE IF ~url.ok THEN attributeValue
     ELSE IF url.protocol \notin {"http:", "https:"}
     THEN IF firstSegment # <<>> /\ \E k \in DOMAIN firstSegment : firstSegment[k] \in DottedTokens
          THEN <<baseUrl.protocol, "/", "/">> \o AfterSchemeSeparator(attributeValue)
          ELSE LET path == JoinWith(SubSeq(parts, 4, Len(parts)), <<"/">>)
                   newUrl == ParseUrl(path, ParseUrl(Origin(resolvedBaseUrl)
                                                     \o Pathname(resolvedBaseUrl), BadUrl))
               IN IF newUrl.ok THEN Href(newUrl) ELSE attributeValue
     ELSE Href(url)

RECURSIVE MakeAllAbsolute(_, _, _)
MakeAllAbsolute(element, names, baseUrl) ==
  \* makeUrlAbsolute(element, attributeName, baseUrl)
  LET MakeUrlAbsolute(el, attributeName, base) ==
        IF ~HasAttr(el, attributeName) THEN el
        ELSE [el EXCEPT !.attrs[attributeName] = AbsoluteValue(@, base)]
  IN
  IF names = <<>> THEN element
  ELSE MakeAllAbsolute(MakeUrlAbsolute(element, Head(names), baseUrl), Tail(names), baseUrl)

RECURSIVE RewriteUrls(_, _)
\* the two querySelectorAll loops of processUrls: every img (srcset, src)
\* and every a (href) of the parsed document
RewriteUrls(nodes, baseUrl) ==
  \* the elements processUrls rewrites, with the attributes it rewrites on each
  LET UrlAttributes(element) ==
        IF element.tag = "img" THEN <<"srcset", "src">>
        ELSE IF element.tag = "a" THEN <<"href">>
        ELSE <<>>
  IN
  ArrayOf([k \in DOMAIN nodes |->
     IF ~IsEl(nodes[k]) THEN nodes[k]
     ELSE [MakeAllAbsolute(nodes[k], UrlAttributes(nodes[k]), baseUrl)
             EXCEPT !.kids = RewriteUrls(nodes[k].kids, baseUrl)]])

\* UrlProcessor.processUrls(html, baseUrl)
ProcessUrls(html, baseUrl) == XmlSerialize(RewriteUrls(html, baseUrl))

(***************************************************************************)
(* TurndownConverter.postProcess and convert.                              *)
(***************************************************************************)
\* the length of the run of newlines of s that starts at position i
RECURSIVE NewlineRun(_, _)
NewlineRun(s, i) == IF i <= Len(s) /\ s[i] = NL THEN 1 + NewlineRun(s, i + 1) ELSE 0

\* (the same slice for /^#+ .+\n+/, a leading heading of any level)
StripTitleAnyLevel(markdown) ==
  LET lineEnd == FirstOf(markdown, {NL})
      marks == NewlineRun(ReplaceAll(markdown, "#", <<NL>>), 1)
  IN IF /\ marks >= 1 /\ Len(markdown) > marks /\ markdown[marks + 1] = SP
        /\ lineEnd > marks + 2 /\ lineEnd <= Len(markdown)
     THEN SubSeq(markdown, lineEnd + NewlineRun(markdown, lineEnd), Len(markdown))
     ELSE markdown

\* markdown.match(/^# .+\n+/) and the slice that removes the match
StripTitle(markdown) ==
  LET lineEnd == FirstOf(markdown, {NL})
  IN IF StartsWith(markdown, <<"#", SP>>) /\ lineEnd > 3 /\ lineEnd <= Len(markdown)
     THEN SubSeq(markdown, lineEnd + NewlineRun(markdown, lineEnd), Len(markdown))
     ELSE markdown

\* (the same match without the look-behind for '!')
EmptyLinkAtAnyPrefix(s, j) ==
  /\ j + 4 <= Len(s)
  /\ s[j] = "[" /\ s[j + 1] = "]" /\ s[j + 2] = "("
  /\ s[j + 3] # ")"
  /\ \E c \in (j + 4)..Len(s) : s[c] = ")"

\* whether /(?<!!)\[]\([^)]+\)/ matches at position j of s
EmptyLinkAt(s, j) ==
  /\ j + 4 <= Len(s)
  /\ s[j] = "[" /\ s[j + 1] = "]" /\ s[j + 2] = "("
  /\ (j = 1 \/ s[j - 1] # "!")
  /\ s[j + 3] # ")"
  /\ \E c \in (j + 4)..Len(s) : s[c] = ")"

\* the number of newlines of s that end just before position j
RECURSIVE NewlineRunBefore(_, _)
NewlineRunBefore(s, j) ==
  IF j > 1 /\ s[j - 1] = NL THEN 1 + NewlineRunBefore(s, j - 1) ELSE 0

RECURSIVE EmptyLinkSpans(_, _, _)
\* the matches of /\n*(?<!!)\[]\([^)]+\)\n*/g among the candidate positions,
\* left to right: a candidate inside an earlier match is not a match of its
\* own, and the newlines an earlier match took are not taken again
EmptyLinkSpans(s, candidates, from) ==
  \* the position of the ')' that closes the empty link at j
  LET EmptyLinkEnd(md, at) == CHOOSE c \in (at + 4)..Len(md) : md[c] = ")" /\ \A m \in (at + 4)..(c - 1) : md[m] # ")"
  IN
  IF candidates = <<>> THEN {}
  ELSE LET j == Head(candidates) IN
       IF j < from THEN EmptyLinkSpans(s, Tail(candidates), from)
       ELSE LET c == EmptyLinkEnd(s, j)
                first == Max(from, j - NewlineRunBefore(s, j))
                last == c + NewlineRun(s, c + 1)
            IN (first..last) \cup EmptyLinkSpans(s, Tail(candidates), last + 1)

\* postProcess(markdown)
PostProcess(markdown) ==
  \* markdown.replace(/\n{3,}/g, '\n\n'): of a run of newlines the first two stay
  LET CollapseNewlines(md) ==
        RemovePositions(md,
          {k \in 3..Len(md) :
             md[k] = NL /\ md[k - 1] = NL /\ md[k - 2] = NL})
  IN
  \* markdown.replace(/\n*(?<!!)\[]\([^)]+\)\n*/g, '')
  LET RemoveEmptyLinks(md) ==
        RemovePositions(md,
          EmptyLinkSpans(md,
                         SelectSeq(Positions(md), LAMBDA j : EmptyLinkAt(md, j)), 1))
  IN
  CollapseNewlines(RemoveEmptyLinks(StripTitle(markdown)))

\* the text the catch block of convert() puts before the processed HTML
PartialPrefix == <<"Partial conversion completed with errors. Original HTML:", NL, NL>>

DEFAULT_OPTIONS ==
  [headingStyle |-> "atx", hr |-> "---", bulletListMarker |-> "-",
   codeBlockStyle |-> "fenced", emDelimiter |-> "*"]

\* whether the rule chosen for the node throws: the table rule reads
\* rows[0] of a table that has no row; the math rule calls extractLatex,
\* whose call of MathMLToLaTeX.convert is not guarded
RuleThrows(node) ==
  \/ RuleFor(node, <<>>) = "table" /\ ~HasComplexStructure(node) /\ TableRows(node) = <<>>
  \/ /\ RuleFor(node, <<>>) = "math"
     /\ ConvertedMath(node) # <<>>
     /\ MathMLThrows(ConvertedMath(node)[1])

RECURSIVE DomAfterRules(_)
\* the tree turndown was walking, as the rules leave it
DomAfterRules(nodes) ==
  ArrayOf([k \in DOMAIN nodes |->
     IF ~IsEl(nodes[k]) THEN nodes[k]
     ELSE LET node == [nodes[k] EXCEPT !.kids = DomAfterRules(nodes[k].kids)]
          IN IF RuleFor(node, <<>>) = "table" /\ HasComplexStructure(node)
             THEN CleanupTableHTML(node).node
             ELSE node])

(***************************************************************************)
(* Clipper.clip: extraction, the options it hands to convert(), and the    *)
(* suggested file name.  File names are sequences of single characters.    *)
(***************************************************************************)
\* new Defuddle(doc, { url }).parse() of the defuddle package, as far as
\* clip() reads it: the title of the page and the markup of its main content
Defuddle(page) ==
  LET titles == SelectSeq(DescendantsOf(page), LAMBDA n : n.tag = "title")
      articles == SelectSeq(DescendantsOf(page), LAMBDA n : n.tag = "article")
  IN [title |-> IF titles = <<>> THEN <<>> ELSE Trim(TextContent(titles[1])),
      content |-> IF articles = <<>> THEN page ELSE articles[1].kids]

\* sanitizeFileName(fileName) on a platform
SanitizeFileName(fileName, platform) ==
  LET
      \* /win/i matches 'darwin' as well
      isWindows == platform \in {"Win32", "win32", "darwin"}
      isMac == platform \in {"MacIntel", "darwin"}
      without(s, set) == SelectSeq(s, LAMBDA c : c \notin set)
      forbidden == {"<", ">", ":", "\"", "/", "\\", "?", "*", NL, TAB}
      reservedNames ==
        {<<"c", "o", "n">>, <<"p", "r", "n">>, <<"a", "u", "x">>, <<"n", "u", "l">>}
        \cup {<<"c", "o", "m", d>> : d \in Digits} \cup {<<"l", "p", "t", d>> : d \in Digits}
      \* /^(con|prn|aux|nul|com[0-9]|lpt[0-9])(\..*)?$/i
      reserved(s) ==
        \E name \in reservedNames :
           /\ Len(s) >= Len(name)
           /\ ToLowerCase(SubSeq(s, 1, Len(name))) = name
           /\ (Len(s) = Len(name) \/ s[Len(name) + 1] = ".")
      \* .replace(/^\./, '_')
      underscored(s) == IF s # <<>> /\ s[1] = "." THEN <<"_">> \o Tail(s) ELSE s
      stripped == without(fileName, {"#", "^", "[", "]", "|"})
      cleaned == without(stripped, forbidden)
      onPlatform ==
        IF isWindows
        THEN DropTrailing(IF reserved(cleaned) THEN <<"_">> \o cleaned ELSE cleaned,
                          {SP, NL, TAB, "."})
        ELSE IF isMac THEN underscored(without(stripped, {"/", ":", NL, TAB}))
        ELSE underscored(cleaned)
      trimmed == Trim(DropLeading(onPlatform, {"."}))
      sanitized == SubSeq(trimmed, 1, IF Len(trimmed) > 245 THEN 245 ELSE Len(trimmed))
  IN IF Len(sanitized) = 0 THEN <<"U", "n", "t", "i", "t", "l", "e", "d">> ELSE sanitized

(***************************************************************************)
(* The documents and options convert() is called with.                     *)
(***************************************************************************)
MaxCols == 2
MaxDepth == 3
MaxItems == 3
MaxBlocks == 3
\* calls made one after the other
MaxCalls == 3

P(text) == El("p", NoAttrs, <<Txt(text)>>)

\* all sequences over `set` of length 1..n
RECURSIVE SeqsUpTo(_, _)
SeqsUpTo(set, n) ==
  IF n = 0 THEN {}
  ELSE {<<x>> : x \in set}
       \cup SeqsUpTo(set, n - 1)
       \cup {Append(q, x) : q \in {r \in SeqsUpTo(set, n - 1) : Len(r) = n - 1}, x \in set}

\* --- simple tables: a header row and a body row, cells with and without '|'
Row(tag, texts) ==
  El("tr", NoAttrs, ArrayOf([c \in DOMAIN texts |-> El(tag, NoAttrs, <<Txt(texts[c])>>)]))

Table(attrs, rows) == El("table", attrs, <<El("tbody", NoAttrs, rows)>>)

SimpleTableDocs ==
  LET CellTexts == {<<"w">>, <<"a", "|", "b">>}
  IN
  {<<Table(NoAttrs, <<Row("th", r1), Row("td", r2)>>)>> :
     r1 \in SeqsUpTo(CellTexts, MaxCols), r2 \in SeqsUpTo(CellTexts, MaxCols)}

\* --- tables whose cells carry attributes, spans among them
AttrTableDocs ==
  LET CellKids ==
        {<<Txt(<<"w">>)>>,
         <<El("img", [a \in {"src", "alt", "class"} |->
                        IF a = "src" THEN <<"https:", "/", "/", "example.com", "/", "a.png">>
                        ELSE <<"k">>], <<>>)>>}
  IN
  LET CellAttrs ==
        {NoAttrs,
         [a \in {"class"} |-> <<"c">>],
         [a \in {"colspan"} |-> <<"2">>],
         [a \in {"rowspan"} |-> <<"2">>],
         [a \in {"colspan", "class", "align", "id"} |-> <<"2">>]}
  IN
  LET TableAttrs == {NoAttrs, [a \in {"class", "id"} |-> <<"t">>]}
  IN
  {<<Table(ta, <<El("tr", NoAttrs, <<El("td", ca, ck)>>),
                 El("tr", NoAttrs, <<El("td", NoAttrs, <<Txt(<<"v">>)>>)>>)>>)>> :
     ta \in TableAttrs, ca \in CellAttrs, ck \in CellKids}

\* --- nested lists: one item per level; the list of the next level sits
\* either inside the item ("item") or directly inside the list ("direct")
Words == <<"t1", "t2", "t3", "t4", "t5">>

RECURSIVE NestedList(_, _, _)
NestedList(kinds, shapes, j) ==
  LET LevelText(level) == <<Words[level]>>
  IN
  LET inner == IF j < Len(kinds) THEN <<NestedList(kinds, shapes, j + 1)>> ELSE <<>>
      inItem == j < Len(kinds) /\ shapes[j] = "item"
  IN El(kinds[j], NoAttrs,
        <<El("li", NoAttrs, <<Txt(LevelText(j))>> \o (IF inItem THEN inner ELSE <<>>))>>
        \o (IF inItem THEN <<>> ELSE inner))

NestedListDocs ==
  {<<NestedList(kinds, shapes, 1)>> :
     kinds \in SeqsUpTo({"ul", "ol"}, MaxDepth),
     shapes \in {sh \in SeqsUpTo({"item", "direct"}, MaxDepth) : Len(sh) = MaxDepth}}

\* --- ordered lists: a start attribute or none, items present or empty
OrderedListDocs ==
  LET Starts == {<<>>, <<"0">>, <<"1">>, <<"3">>, <<"1", "0">>, <<"-", "2">>}
  IN
  {<<El("ol", IF start = <<>> THEN NoAttrs ELSE [a \in {"start"} |-> start],
        ArrayOf([k \in 1..MaxItems |->
           El("li", NoAttrs, IF k \in present THEN <<Txt(<<Words[k]>>)>> ELSE <<>>)]))>> :
     start \in Starts, present \in SUBSET (1..MaxItems)}

\* --- task lists: an item with or without the class and with or without a
TaskListDocs ==
  LET TaskItem(v, text, nested) ==
        \* checkbox of its own, alone or holding a nested list with one more item
        LET Checkbox(checked) ==
              El("input", [a \in {"type"} \cup (IF checked THEN {"checked"} ELSE {}) |->
                             IF a = "type" THEN <<"checkbox">> ELSE <<>>], <<>>)
        IN
        El("li", IF v.class THEN [a \in {"class"} |-> <<"task-list-item">>] ELSE NoAttrs,
           (IF v.box = "none" THEN <<>> ELSE <<Checkbox(v.box = "checked")>>)
           \o <<Txt(text)>> \o nested)
  IN
  LET ItemVariants ==
        {[class |-> c, box |-> b] : c \in BOOLEAN, b \in {"none", "checked", "unchecked"}}
  IN
  {<<El("ul", NoAttrs, <<TaskItem(pv, <<"Parent">>, <<>>)>>)>> : pv \in ItemVariants}
  \cup {<<El("ul", NoAttrs,
            <<TaskItem(pv, <<"Parent">>,
                       <<El("ul", NoAttrs, <<TaskItem(cv, <<"Child">>, <<>>)>>)>>)>>)>> :
          pv \in ItemVariants, cv \in ItemVariants}

\* --- math in the three notations, in a table cell and outside any table
Mi == El("mi", NoAttrs, <<Txt(<<"x">>)>>)

MathNode(notation, block, body) ==
  LET displayAttrs == IF block THEN [a \in {"display"} |-> <<"block">>] ELSE NoAttrs
  IN
  CASE notation = "MathJax" ->
         El("mjx-container", NoAttrs,
            <<El("mjx-assistive-mml", NoAttrs, <<El("math", displayAttrs, <<body>>)>>)>>)
    [] notation = "MathML" -> El("math", displayAttrs, <<body>>)
    [] notation = "mwe" ->
         El("span", [a \in {"class"} |->
                       <<IF block THEN "mwe-math-fallback-image-display"
                         ELSE "mwe-math-fallback-image-inline">>],
            <<El("math", [a \in {"alttext"} |-> <<"x">>], <<body>>)>>)
    [] notation = "KaTeX" ->
         El("span", [a \in {"class"} |-> <<"katex">>],
            <<El("span", [a \in {"class"} |-> <<"katex-mathml">>],
                 <<El("math", displayAttrs, <<body>>)>>)>>)

Notations == {"MathJax", "MathML", "mwe", "KaTeX"}

MathDocs ==
  {<<MathNode(n, b, Mi)>> : n \in Notations, b \in BOOLEAN}
  \cup {<<Table(NoAttrs, <<Row("th", <<<<"H">>>>),
                           El("tr", NoAttrs, <<El("td", NoAttrs, <<MathNode(n, b, Mi)>>)>>)>>)>> :
          n \in Notations, b \in BOOLEAN}
  \* KaTeX and pandoc markup that carries the LaTeX and no MathML
  \cup {<<P(<<"text">>),
          El("span", [a \in {"class", "data-latex"} |->
                        IF a = "class" THEN c ELSE <<"x">>], <<Txt(<<"x">>)>>)>> :
          c \in {<<"katex">>, <<"math", SP, "inline">>, <<"math", SP, "math-inline">>,
                 <<"math", SP, "display">>}}

\* --- the same notations around MathML the converter rejects, after a paragraph
\* --- headings, paragraphs, empty links and images, in sequence
ExampleUrl == <<"https:", "/", "/", "example.com", "/", "u">>

BlockDocs ==
  LET Block(kind) ==
        CASE kind = "h1" -> El("h1", NoAttrs, <<Txt(<<"Title">>)>>)
          [] kind = "h1b" -> El("h1", NoAttrs, <<Txt(<<"Second">>)>>)
          [] kind = "h2" -> El("h2", NoAttrs, <<Txt(<<"Sub">>)>>)
          [] kind = "p" -> P(<<"text">>)
          [] kind = "link" -> El("a", [a \in {"href"} |-> ExampleUrl], <<>>)
          [] kind = "img" -> El("img", [a \in {"src"} |-> ExampleUrl], <<>>)
          [] kind = "h1img" -> El("h1", NoAttrs, <<El("img", [a \in {"src"} |-> ExampleUrl], <<>>)>>)
          [] kind = "pbang" -> El("p", NoAttrs, <<Txt(<<"Hi", "!">>),
                                                  El("a", [a \in {"href"} |-> ExampleUrl], <<>>)>>)
  IN
  LET BlockKinds == {"h1", "h1b", "h2", "p", "link", "img", "h1img", "pbang"}
  IN
  {ArrayOf([k \in DOMAIN q |-> Block(q[k])]) : q \in SeqsUpTo(BlockKinds, MaxBlocks)}

\* --- documents on which the table rule throws, with blank lines in the source
\* --- URL-carrying elements, and the base URLs
\* --- images with a srcset: one or two candidates, with and without descriptors
\* --- iframes: video and post embeds in the shapes the two patterns know,
DefaultBase == <<"https:", "/", "/", "example.com", "/", "page">>

\* --- documents in which one attribute value cannot be resolved ('https://'
\* --- documents in which each style option shows: a heading, a rule, a
\* bullet list, emphasis
StyledDocs ==
  {<<El("h2", NoAttrs, <<Txt(<<"Sub">>)>>), P(<<"text">>)>>,
   <<P(<<"text">>), El("hr", NoAttrs, <<>>), P(<<"more">>)>>,
   <<El("ul", NoAttrs, <<El("li", NoAttrs, <<Txt(<<"item">>)>>)>>)>>,
   <<El("p", NoAttrs, <<Txt(<<"main", SP>>), El("em", NoAttrs, <<Txt(<<"italic">>)>>)>>)>>}

\* style options a caller gives
StyleOptions ==
  {[o \in {"bulletListMarker"} |-> <<"*">>],
   [o \in {"emDelimiter", "hr"} |-> IF o = "hr" THEN <<"***">> ELSE <<"_">>],
   [o \in {"headingStyle", "codeBlockStyle"} |->
      IF o = "headingStyle" THEN <<"setext">> ELSE <<"indented">>]}

\* --- elements of each added rule, and elements that two added rules match
\* base URLs that new URL() rejects: the empty string, a URL without scheme
InvalidBaseUrls == {<<>>, <<"example.com", "/", "page">>}

\* --- the calls of clip(html, options): titles and file names written
\* the calls a behaviour starts with
Inputs ==
  \* the calls of convert(html, options)
  LET ConvertInputs ==
        LET BulletDocs == {d \in NestedListDocs : Len(Descendants(d[1])) <= 2}
        IN
        LET RuleDocs ==
              LET hidden == [a \in {"style"} |-> <<"display:none">>]
                  class(c) == [a \in {"class"} |-> c]
                  id(v) == [a \in {"id"} |-> v]
                  text(t) == <<Txt(<<t>>)>>
                  backref == El("a", [a \in {"href", "class"} |->
                                        IF a = "href" THEN <<"#fnref:", "1">> ELSE <<"footnote-backref">>],
                                text("&#8617;"))
                  footnote == El("li", id(<<"fn:", "N">>),
                                 <<El("p", NoAttrs, <<Txt(<<"note", SP>>), backref>>)>>)
                  code == El("code", [a \in {"data-lang"} |-> <<"js">>], text("x"))
                  img == El("img", [a \in {"src", "alt"} |->
                                      IF a = "src" THEN ExampleUrl ELSE <<"pic">>], <<>>)
                  \* a section with a reference to a footnote and the footnote itself
                  referenced(x) ==
                    El("section", NoAttrs,
                       <<El("p", NoAttrs, <<Txt(<<"see">>), El("sup", id(<<"fnref:">> \o x), text("1"))>>),
                         El("div", id(<<"footnotes">>),
                            <<El("ol", NoAttrs,
                                 <<El("li", id(<<"fn:">> \o x), <<El("p", NoAttrs, text("note"))>>)>>)>>)>>)
                  elements ==
                    {El("mark", hidden, text("x")),
                     El("mark", NoAttrs, text("x")),
                     El("table", hidden, <<El("tr", NoAttrs, <<El("td", NoAttrs, text("x"))>>)>>),
                     El("s", class(<<"footnote-backref">>), text("x")),
                     El("div", id(<<"footnotes">>), <<El("ol", NoAttrs, <<footnote>>)>>),
                     El("ol", NoAttrs, <<footnote>>),
                     El("div", id(<<"footnotes">>),
                        <<El("ol", NoAttrs,
                             <<El("li", id(<<"fn:", "A">>),
                                  <<El("sup", NoAttrs, text("A")), El("p", NoAttrs, text("first"))>>),
                               El("li", id(<<"cite_note-", "F", "o", "o">>),
                                  <<Txt(<<"cited", SP, "&#8617;", "&#65038;">>)>>),
                               El("li", id(<<"fn:", "1", "-", "2">>),
                                  <<El("p", NoAttrs, <<Txt(<<"x">>), El("sup", NoAttrs, text("2"))>>)>>)>>)>>),
                     El("sup", id(<<"fnref:", "A">>), text("1")),
                     El("a", [a \in {"href"} |-> <<"#fnref:", "1">>], text("back")),
                     El("ol", NoAttrs, <<El("li", hidden, text("x")), El("li", NoAttrs, text("y"))>>),
                     El("pre", NoAttrs,
                        <<El("code", NoAttrs, <<Txt(<<"shown">>), El("span", hidden, text("secret"))>>)>>),
                     El("sup", NoAttrs, <<Txt(<<"shown">>), El("span", hidden, text("secret"))>>),
                     El("table", NoAttrs,
                        <<El("tr", NoAttrs,
                             <<El("td", [a \in {"colspan"} |-> <<"2">>],
                                  <<Txt(<<"shown">>), El("span", hidden, text("secret"))>>)>>)>>),
                     El("table", NoAttrs,
                        <<El("tr", NoAttrs,
                             <<El("td", NoAttrs,
                                  <<Txt(<<"shown">>), El("span", hidden, text("secret"))>>)>>)>>),
                     referenced(<<"1">>), referenced(<<"n">>), referenced(<<"A">>),
                     referenced(<<"1", "-", "2">>), referenced(<<"a", "-", "B">>),
                     El("sup", id(<<"fnref:", "a", "-", "B", "-", "c">>), text("2")),
                     El("sup", id(<<"fnref:", "1", "-", "2">>), <<El("a", [a \in {"href"} |-> <<"#fn:", "1">>], text("1"))>>),
                     El("sup", id(<<"fnref:", "1">>) @@ hidden, text("1")),
                     El("div", class(<<"markdown-alert", SP, "markdown-alert-tip">>),
                        <<El("p", class(<<"markdown-alert-title">>), text("Tip")),
                          El("p", NoAttrs, text("advice"))>>),
                     El("div", class(<<"markdown-alert", SP, "math">>), <<El("p", NoAttrs, text("x"))>>),
                     El("pre", NoAttrs, <<code>>),
                     El("pre", class(<<"katex">>), <<code>>),
                     El("pre", hidden, <<code>>),
                     El("pre", NoAttrs, <<El("code", NoAttrs, <<Txt(<<"a", BT, "b", BT>>)>>)>>),
                     El("pre", NoAttrs, <<El("code", NoAttrs, <<Txt(<<SP, "x", NL>>)>>)>>),
                     El("pre", NoAttrs, <<El("code", NoAttrs, <<Txt(<<SP, NL>>)>>)>>),
                     El("pre", NoAttrs, <<Txt(<<"before", NL>>), El("span", NoAttrs, <<code>>)>>),
                     El("pre", NoAttrs, <<Txt(<<"plain", SP, SP, "text">>)>>),
                     El("pre", NoAttrs, <<El("em", NoAttrs, text("stressed")), Txt(<<SP, "text">>)>>),
                     El("figure", NoAttrs, <<img, El("figcaption", NoAttrs, text("caption"))>>),
                     El("figure", class(<<"math">>), <<img>>),
                     El("mjx-container", class(<<"math">>), text("x")),
                     El("ul", NoAttrs, <<El("li", hidden, text("x")), El("li", NoAttrs, text("y"))>>)}
              IN {<<P(<<"text">>), e>> : e \in elements}
        IN
        LET MalformedDocs ==
              \* has no host) next to attributes that can
              LET MalformedUrl == <<"https:", "/", "/">>
              IN
              {<<El("img", [a \in {"src", "alt"} |-> IF a = "src" THEN MalformedUrl ELSE <<"pic">>], <<>>),
                 El("a", [a \in {"href"} |-> <<"/", "about">>], <<Txt(<<"Link">>)>>)>>,
               <<El("a", [a \in {"href"} |-> MalformedUrl], <<Txt(<<"Link">>)>>),
                 El("img", [a \in {"src", "alt"} |-> IF a = "src" THEN <<"a.png">> ELSE <<"pic">>], <<>>)>>,
               <<El("img", [a \in {"srcset", "src"} |->
                              IF a = "srcset" THEN MalformedUrl ELSE <<"/", "images", "/", "a.png">>], <<>>)>>}
        IN
        LET BaseUrls ==
              {DefaultBase,
               <<"https:", "/", "/", "example.com", "/", "dir", "/", "b.html">>,
               <<"http:", "/", "/", "example.com", "/", "dir", "/", "sub", "/">>}
        IN
        LET EmbedDocs ==
              \* pages of the same hosts in other shapes, and an unrelated player
              LET EmbedSrcs ==
                    {<<"https:", "/", "/", "www.youtube.com", "/", "embed", "/", "abc123">>,
                     <<"https:", "/", "/", "www.youtube.com", "/", "watch", "?", "v", "=", "abc123">>,
                     <<"https:", "/", "/", "youtu.be", "/", "abc123">>,
                     <<"https:", "/", "/", "www.youtube.com", "/">>,
                     <<"https:", "/", "/", "twitter.com", "/", "user", "/", "status", "/", "123456">>,
                     <<"https:", "/", "/", "x.com", "/", "user">>,
                     <<"https:", "/", "/", "platform.twitter.com", "/", "widgets", "/", "tweet_button.html">>,
                     <<"https:", "/", "/", "www.dropbox.com", "/", "s", "/", "a.pdf">>,
                     <<"https:", "/", "/", "player.vimeo.com", "/", "video", "/", "123456">>}
              IN
              {before \o <<El("iframe", [a \in {"src"} |-> src], <<>>)>> :
                 before \in {<<>>, <<P(<<"text">>)>>}, src \in EmbedSrcs}
        IN
        LET SrcsetDocs ==
              LET SrcsetValues ==
                    {<<"/", "img", "/", "a.png">>,
                     <<"/", "img", "/", "small.png", SP, "1x">>,
                     <<"/", "img", "/", "small.png", SP, "1x", ",", SP, "/", "img", "/", "large.png", SP, "2x">>,
                     <<"small.png", SP, "480w", ",", SP, "large.png", SP, "800w">>}
              IN
              {<<El("img", [a \in {"srcset", "alt"} |-> IF a = "srcset" THEN v ELSE <<"pic">>], <<>>)>> :
                 v \in SrcsetValues}
        IN
        LET UrlDocs ==
              LET UrlElement(kind, value) ==
                    CASE kind = "img" -> El("img", [a \in {"src", "alt"} |-> IF a = "src" THEN value ELSE <<"pic">>], <<>>)
                      [] kind = "a" -> El("a", [a \in {"href"} |-> value], <<Txt(<<"Link">>)>>)
                      [] kind = "iframe" -> El("iframe", [a \in {"src"} |-> value], <<>>)
              IN
              LET UrlValues ==
                    {<<"/", "images", "/", "a.png">>,
                     <<"img", "/", "a.png">>,
                     <<"..", "/", "a.png">>,
                     <<".", "/", "a.png">>,
                     <<"a.png">>,
                     <<"?", "q">>,
                     <<"#", "top">>,
                     <<"/", "/", "cdn.example.com", "/", "a.png">>,
                     <<"https:", "/", "/", "cdn.example.com", "/", "a.png">>,
                     <<"data:", "image", "/", "png;base64,AAAA">>,
                     <<"chrome-extension:", "/", "/", "abcdef", "/", "img", "/", "a.png">>,
                     <<"chrome-extension:", "/", "/", "cdn.example.com", "/", "a.png">>}
              IN
              {<<UrlElement(k, v)>> : k \in {"img", "a", "iframe"}, v \in UrlValues}
        IN
        LET ErrorDocs ==
              LET BlankLines == Txt(<<NL, NL, NL>>)
              IN
              LET EmptyTable == El("table", NoAttrs, <<>>)
              IN
              {<<EmptyTable>>,
               <<P(<<"text">>), BlankLines, EmptyTable>>,
               <<P(<<"text">>), BlankLines, P(<<"more">>)>>,
               <<P(<<"text">>), EmptyTable>>,
               <<El("div", NoAttrs, <<EmptyTable>>), BlankLines, P(<<"more">>)>>}
        IN
        LET BrokenMathDocs ==
              \* a fraction with one child
              LET BrokenFraction == El("mfrac", NoAttrs, <<Mi>>)
              IN
              {<<P(<<"text">>), MathNode(n, b, BrokenFraction)>> : n \in Notations, b \in BOOLEAN}
        IN
        {[html |-> d, options |-> [o \in {"baseUrl"} |-> DefaultBase]] :
           d \in SimpleTableDocs \cup AttrTableDocs \cup NestedListDocs \cup OrderedListDocs
                 \cup TaskListDocs \cup MathDocs \cup BlockDocs \cup ErrorDocs
                 \cup EmbedDocs \cup BrokenMathDocs \cup StyledDocs \cup RuleDocs}
        \cup {[html |-> d, options |-> [o \in {"baseUrl"} |-> b]] :
                d \in UrlDocs \cup SrcsetDocs \cup MalformedDocs, b \in BaseUrls}
        \cup {[html |-> d, options |-> [o \in {"baseUrl", "bulletListMarker"} |->
                                         IF o = "baseUrl" THEN DefaultBase ELSE <<"*">>]] :
                d \in BulletDocs}
        \cup {[html |-> d, options |-> [o \in {"baseUrl"} |-> b]] :
                d \in SrcsetDocs \cup {<<P(<<"text">>)>>}, b \in InvalidBaseUrls}
        \cup {[html |-> d, options |-> [o \in {"baseUrl"} |-> DefaultBase] @@ style] :
                d \in StyledDocs, style \in StyleOptions}
  IN
  \* character by character, on each platform
  LET ClipInputs ==
        LET fileNames ==
              {<<>>,
               <<"H", "#", "W", "[", "T", "]">>,
               <<SP, SP, "h", "i", SP, SP>>,
               Repeat(<<"a">>, 300),
               <<".", ".", "h", "i">>,
               <<SP, ".", "h", "i">>,
               <<"c", "o", "n">>,
               <<"C", "O", "N", ".", "t", "x", "t">>,
               <<"a", ":", "b", "/", "c">>,
               <<"a", ".", SP>>,
               <<"#", "^", "[", "]", "|">>,
               <<".">>,
               <<"T", "e", "s", "t">>}
            platforms == {"win32", "darwin", "MacIntel", "linux"}
            \* a page: its title and, in an article element, its main content
            page(title, content) ==
              <<El("title", NoAttrs, <<Txt(title)>>), El("article", NoAttrs, content)>>
            test == <<"T", "e", "s", "t">>
            text == <<P(<<"text">>)>>
        IN
        {[html |-> page(t, d), options |-> [o \in {"url"} |-> DefaultBase], platform |-> pf] :
           t \in fileNames, d \in StyledDocs, pf \in platforms}
        \cup {[html |-> page(test, text),
               options |-> [o \in {"url", "filename"} |-> IF o = "url" THEN DefaultBase ELSE f],
               platform |-> pf] : f \in fileNames, pf \in platforms}
        \cup {[html |-> page(test, d),
               options |-> [o \in {"url"} |-> DefaultBase] @@ style, platform |-> "linux"] :
                d \in StyledDocs, style \in StyleOptions}
        \cup {[html |-> page(test, text),
               options |-> [o \in {"url"} |-> b], platform |-> "linux"] : b \in InvalidBaseUrls}
  IN
  {[html |-> i.html, options |-> i.options, platform |-> "linux"] : i \in ConvertInputs}
  \cup ClipInputs

(***************************************************************************)
(* The state machine: one call of convert() per behaviour.                 *)
(***************************************************************************)
VARIABLES pc, html, options, platform, processedHtml, markdown, dom, result,
          suggestedFilename, defaultOptions, defaultClipper, calls

\* a call of truncate(text, maxLength): its arguments and what it returned
VARIABLES textToTruncate, maxLength, truncated

\* the Logseq plugin: the locals of parseMarkdownToBlocks (the line index
\* i is written lineIndex), the step the insertion has reached, and the
\* calls made on logseq.Editor
VARIABLES lines, lineIndex, rootBlocks, headingStack, logseqPc, editorCalls

\* one call of turndownService.turndown, step by step: the calls of process
\* and of the rules that have not returned yet, innermost last; what has
\* happened to the nodes so far; the number of calls of turndown made
VARIABLES walkStack, walkLog, invocations

converterVars == <<pc, html, options, platform, processedHtml, markdown, dom, result,
                   suggestedFilename, defaultOptions, defaultClipper, calls>>

truncateVars == <<textToTruncate, maxLength, truncated>>

logseqVars == <<lines, lineIndex, rootBlocks, headingStack, logseqPc, editorCalls>>

walkVars == <<walkStack, walkLog, invocations>>

vars == <<converterVars, truncateVars, logseqVars, walkVars>>

\* no call of convert() or clip() is being made
ConverterIdle ==
  /\ pc = "idle"
  /\ html = <<>>
  /\ options = [o \in {} |-> <<>>]
  /\ platform = "linux"
  /\ processedHtml = <<>>
  /\ markdown = <<>>
  /\ dom = <<>>
  /\ result = <<>>
  /\ suggestedFilename = <<>>
  /\ defaultOptions = DEFAULT_OPTIONS
  /\ defaultClipper = "null"
  /\ calls = <<>>

\* no call of truncate() is being made
TruncateIdle ==
  /\ textToTruncate = <<>>
  /\ maxLength = 0
  /\ truncated = <<>>

\* turndown is not followed step by step
WalkIdle ==
  /\ walkStack = <<>>
  /\ walkLog = <<>>
  /\ invocations = 0

\* the plugin is not inserting
LogseqIdle ==
  /\ lines = <<>>
  /\ lineIndex = 0
  /\ rootBlocks = <<>>
  /\ headingStack = <<>>
  /\ logseqPc = "idle"
  /\ editorCalls = <<>>

\* { ...DEFAULT_OPTIONS, ...options }: every own property of options
\* replaces the default, a property whose value is undefined included (it
\* is written 'undefined' when a rule concatenates it)
MergeOptions(defaults, given) ==
  [o \in DOMAIN defaults |-> IF o \in DOMAIN given THEN given[o][1] ELSE defaults[o]]

\* Object.assign(DEFAULT_OPTIONS, options): the merge written into the
\* shared object
DefaultsAssigned(defaults, given) == MergeOptions(defaults, given)

\* the module-level DEFAULT_OPTIONS object after a call: the spread copies
\* it into a new object and leaves it as it was
DefaultsAfterCall(defaults, given) == defaults

\* TurndownConverter.convert(content, given) as one call: how it ends, and
\* what it computes on the way
ConvertCall(content, given, defaults) ==
  \* whether turndownService.turndown(html) throws: every element is visited,
  \* whatever rule its ancestors get
  LET TurndownThrows(fragment) ==
        \E k \in DOMAIN DescendantsOf(fragment) : RuleThrows(DescendantsOf(fragment)[k])
  IN
  LET opts == MergeOptions(defaults, given)
      returned(processed, written) ==
        [outcome |-> "returned", processedHtml |-> processed, markdown |-> written,
         dom |-> DomAfterRules(CollapseWhitespace(processed)),
         result |-> Trim(PostProcess(written))]
      tried(processed) ==
        IF TurndownThrows(processed)
        THEN [outcome |-> "failed", processedHtml |-> processed, markdown |-> <<>>,
              dom |-> <<>>, result |-> PartialPrefix \o SerializeAll(processed)]
        ELSE returned(processed, Turndown(processed, opts))
      entered(baseUrl) ==
        IF ~baseUrl.ok
        THEN [outcome |-> "threw", processedHtml |-> <<>>, markdown |-> <<>>, dom |-> <<>>,
              result |-> <<>>]
        ELSE tried(ProcessUrls(content, baseUrl))
  IN entered(ParseUrl(given.baseUrl, BadUrl))

\* the entry of the call history that a finished call adds
CallRecord(outcome, returned) ==
  [html |-> html, options |-> options, outcome |-> outcome, result |-> returned]

Init ==
  /\ pc = "called"
  /\ \E input \in Inputs :
       html = input.html /\ options = input.options /\ platform = input.platform
  /\ processedHtml = <<>>
  /\ markdown = <<>>
  /\ dom = <<>>
  /\ result = <<>>
  /\ suggestedFilename = <<>>
  /\ defaultOptions = DEFAULT_OPTIONS
  /\ defaultClipper = "null"
  /\ calls = <<>>
  /\ TruncateIdle
  /\ LogseqIdle
  /\ WalkIdle

\* convert(): new URL(options.baseUrl) throws, before the try block is
\* entered; the exception leaves convert()
ConvertThrows ==
  /\ pc = "called"
  /\ "baseUrl" \in DOMAIN options
  /\ \E call \in {ConvertCall(html, options, defaultOptions)} :
        /\ call.outcome = "threw"
        /\ calls' = Append(calls, CallRecord("threw", <<>>))
  /\ pc' = "threw"
  /\ defaultOptions' = DefaultsAfterCall(defaultOptions, options)
  /\ UNCHANGED <<html, options, platform, processedHtml, markdown, dom, result,
                 suggestedFilename, defaultClipper>>
  /\ UNCHANGED <<truncateVars, logseqVars, walkVars>>

\* convert(): the try block runs to its return
Convert ==
  /\ pc = "called"
  /\ "baseUrl" \in DOMAIN options
  /\ \E call \in {ConvertCall(html, options, defaultOptions)} :
        /\ call.outcome = "returned"
        /\ processedHtml' = call.processedHtml
        /\ markdown' = call.markdown
        /\ dom' = call.dom
        /\ result' = call.result
        /\ calls' = Append(calls, CallRecord("returned", call.result))
  /\ pc' = "returned"
  /\ defaultOptions' = DefaultsAfterCall(defaultOptions, options)
  /\ UNCHANGED <<html, options, platform, suggestedFilename, defaultClipper>>
  /\ UNCHANGED <<truncateVars, logseqVars, walkVars>>

\* convert(): a rule throws and the catch block returns the partial result
ConvertCatch ==
  /\ pc = "called"
  /\ "baseUrl" \in DOMAIN options
  /\ \E call \in {ConvertCall(html, options, defaultOptions)} :
        /\ call.outcome = "failed"
        /\ processedHtml' = call.processedHtml
        /\ result' = call.result
        /\ calls' = Append(calls, CallRecord("failed", call.result))
  /\ pc' = "failed"
  /\ defaultOptions' = DefaultsAfterCall(defaultOptions, options)
  /\ UNCHANGED <<html, options, platform, markdown, dom, suggestedFilename, defaultClipper>>
  /\ UNCHANGED <<truncateVars, logseqVars, walkVars>>

\* clip(html, options) of the module: the default clipper is created on
\* first use; Clipper.clip extracts, converts and derives the file name.
\* An exception of convert() passes through clip().
Clip ==
  \* the options object Clipper.clip builds for convert(): baseUrl is the
  \* url, and each style property is written out, present or with the value
  \* undefined
  LET GivenToConvert(clipOptions) ==
        [o \in {"baseUrl"} \cup DOMAIN DEFAULT_OPTIONS |->
           IF o = "baseUrl" THEN clipOptions.url
           ELSE IF o \in DOMAIN clipOptions THEN clipOptions[o]
           ELSE <<"undefined">>]
  IN
  /\ pc = "called"
  /\ "url" \in DOMAIN options
  /\ defaultClipper' = "created"
  /\ \E extracted \in {Defuddle(html)}, given \in {GivenToConvert(options)} :
     \E call \in {ConvertCall(extracted.content, given, defaultOptions)} :
     LET fileName == IF "filename" \in DOMAIN options /\ options.filename # <<>>
                     THEN options.filename ELSE extracted.title
     IN /\ defaultOptions' = DefaultsAfterCall(defaultOptions, given)
        /\ IF call.outcome = "threw"
           THEN /\ pc' = "threw"
                /\ calls' = Append(calls, CallRecord("threw", <<>>))
                /\ UNCHANGED <<processedHtml, markdown, dom, result, suggestedFilename>>
           ELSE /\ pc' = "clipped"
                /\ processedHtml' = call.processedHtml
                /\ markdown' = call.markdown
                /\ dom' = call.dom
                /\ result' = call.result
                /\ suggestedFilename' = SanitizeFileName(fileName, platform)
                /\ calls' = Append(calls, CallRecord("clipped", call.result))
  /\ UNCHANGED <<html, options, platform>>
  /\ UNCHANGED <<truncateVars, logseqVars, walkVars>>

Next == ConvertThrows \/ Convert \/ ConvertCatch \/ Clip

Spec == Init /\ [][Next]_vars

(***************************************************************************)
(* Several calls, one after the other, on the same converter and the same  *)
(* default clipper: DEFAULT_OPTIONS and defaultClipper live as long as the *)
(* module, everything else is local to a call.                             *)
(***************************************************************************)
\* the calls callers choose from: the same documents with and without
\* style options, through convert() and through clip(), and calls that fail
SharedInputs ==
  LET listDoc == <<El("ul", NoAttrs, <<El("li", NoAttrs, <<Txt(<<"item">>)>>)>>),
                   El("hr", NoAttrs, <<>>)>>
      emDoc == <<El("p", NoAttrs, <<El("em", NoAttrs, <<Txt(<<"italic">>)>>)>>)>>
      base == [o \in {"baseUrl"} |-> DefaultBase]
      url == [o \in {"url"} |-> DefaultBase]
      starred == [o \in {"bulletListMarker", "hr"} |->
                    IF o = "hr" THEN <<"***">> ELSE <<"*">>]
      page(content) == <<El("title", NoAttrs, <<Txt(<<"T">>)>>),
                         El("article", NoAttrs, content)>>
  IN {[html |-> listDoc, options |-> base, platform |-> "linux"],
      [html |-> listDoc, options |-> base @@ starred, platform |-> "linux"],
      [html |-> emDoc, options |-> base, platform |-> "linux"],
      [html |-> emDoc, options |-> base @@ [o \in {"emDelimiter"} |-> <<"_">>],
       platform |-> "linux"],
      [html |-> <<El("table", NoAttrs, <<>>)>>, options |-> base, platform |-> "linux"],
      [html |-> emDoc, options |-> [o \in {"baseUrl"} |-> <<>>], platform |-> "linux"],
      [html |-> page(listDoc), options |-> url, platform |-> "linux"],
      [html |-> page(listDoc), options |-> url @@ starred, platform |-> "linux"]}

\* the first call of a caller
InitCalls ==
  /\ pc = "called"
  /\ \E input \in SharedInputs :
       html = input.html /\ options = input.options /\ platform = input.platform
  /\ processedHtml = <<>>
  /\ markdown = <<>>
  /\ dom = <<>>
  /\ result = <<>>
  /\ suggestedFilename = <<>>
  /\ defaultOptions = DEFAULT_OPTIONS
  /\ defaultClipper = "null"
  /\ calls = <<>>
  /\ TruncateIdle
  /\ LogseqIdle
  /\ WalkIdle

\* the previous call is over and a caller makes the next one: the locals of
\* the call start afresh, the module-level objects stay
NextCall ==
  /\ pc # "called"
  /\ Len(calls) < MaxCalls
  /\ \E input \in SharedInputs :
       html' = input.html /\ options' = input.options /\ platform' = input.platform
  /\ pc' = "called"
  /\ processedHtml' = <<>>
  /\ markdown' = <<>>
  /\ dom' = <<>>
  /\ result' = <<>>
  /\ suggestedFilename' = <<>>
  /\ UNCHANGED <<defaultOptions, defaultClipper, calls>>
  /\ UNCHANGED <<truncateVars, logseqVars, walkVars>>

SpecCalls == InitCalls /\ [][Next \/ NextCall]_vars

(***************************************************************************)
(* truncate(text, maxLength) of the string utilities, one call per         *)
(* behaviour; a text is written character by character.                    *)
(***************************************************************************)
MaxText == 11
MaxLength == 12

\* truncate: the text when it fits, else text.slice(0, maxLength - 3)
\* followed by the ellipsis; slice counts a negative end from the end of
\* the text
Truncate(string, max) ==
  LET slice(s, start, end) ==
        LET to == IF end < 0 THEN Max(Len(s) + end, 0)
                  ELSE IF end > Len(s) THEN Len(s) ELSE end
        IN SubSeq(s, start + 1, to)
  IN IF Len(string) <= max THEN string
     ELSE slice(string, 0, max - 3) \o <<".", ".", ".">>

\* a caller truncates a text of up to MaxText characters to a length of
\* up to MaxLength
InitTruncate ==
  /\ \E n \in 0..MaxText :
       textToTruncate =
         ArrayOf([k \in 1..n |->
                    <<"h", "e", "l", "l", "o", SP, "w", "o", "r", "l", "d">>[((k - 1) % 11) + 1]])
  /\ maxLength \in 0..MaxLength
  /\ truncated = <<>>
  /\ ConverterIdle
  /\ LogseqIdle
  /\ WalkIdle

\* the call returns
TruncateReturns ==
  /\ truncated = <<>>
  /\ truncated' = <<Truncate(textToTruncate, maxLength)>>
  /\ UNCHANGED <<textToTruncate, maxLength, converterVars, logseqVars, walkVars>>

SpecTruncate == InitTruncate /\ [][TruncateReturns]_vars

(***************************************************************************)
(* turndownService.turndown followed step by step: process(parent) walks   *)
(* the child nodes of parent, replacementForNode(node) calls process(node) *)
(* and then the replacement of the node's rule, and the table, figure and  *)
(* footnotesList rules call turndown again on markup of their own.         *)
(***************************************************************************)
\* the markup a rule hands to turndown before it returns, in the order of
\* its calls: the cells of a simple table, the caption of a figure, the
\* items of a footnote list
ReentrantCalls(rule, node) ==
  LET cellsOf(row) == ArrayOf([c \in DOMAIN RowCells(row) |-> GetElementHTML(RowCells(row)[c])])
      own(li) ==
        IF StartsWith(Attr(li, "id"), <<"fn:">>) THEN Tail(Attr(li, "id"))
        ELSE LET segments == Split(Attr(li, "id"), "/")
                 last == segments[Len(segments)]
                 noted == {k \in Occurrences(last, <<"cite_note-">>) : k < Len(last)}
             IN IF noted = {} THEN Attr(li, "id")
                ELSE SubSeq(last, (CHOOSE k \in noted : \A m \in noted : k <= m) + 1, Len(last))
      withoutSup(li) ==
        IF QueryAll(li, {"sup"}) # <<>> /\ Trim(TextContent(QueryAll(li, {"sup"})[1])) = own(li)
        THEN [li EXCEPT !.kids = RemoveFirst(li.kids, "sup")] ELSE li
      items == SelectSeq(node.kids, IsEl)
  IN CASE rule = "table" /\ ~HasComplexStructure(node) ->
            Concat([r \in DOMAIN TableRows(node) |-> cellsOf(TableRows(node)[r])])
       [] rule = "figure" /\ QueryAll(node, {"img"}) # <<>>
                          /\ QueryAll(node, {"figcaption"}) # <<>> ->
            <<GetElementHTML(QueryAll(node, {"figcaption"})[1])>>
       [] rule = "footnotesList" /\ IsHTMLElement(node) ->
            ArrayOf([k \in DOMAIN items |-> GetElementHTML(withoutSup(items[k]))])
       [] OTHER -> <<>>

\* the call of process for the root of the given markup, in a new call of
\* turndown
ProcessRoot(inv, markup) ==
  [call |-> "process", inv |-> inv, path |-> <<>>,
   node |-> [RootNode EXCEPT !.kids = CollapseWhitespace(markup)], anc |-> <<>>,
   k |-> 1, output |-> <<>>]

\* process that joins the replacement in front of its output
AfterChildReversed(frame, replacement) ==
  [frame EXCEPT !.output = Join(replacement, frame.output), !.k = frame.k + 1]

\* the call of process after the replacement of its next child node has
\* been joined to its output
AfterChild(frame, replacement) ==
  [frame EXCEPT !.output = Join(frame.output, replacement), !.k = frame.k + 1]

\* what walkLog records of a call: a call of turndown has Started or
\* Returned, a text node was converted (Text), process(node) returned the
\* content of an element (ChildrenConverted), the replacement of its rule
\* returned (Emitted)
WalkEvent(event, frame, text, from) ==
  [event |-> event, inv |-> frame.inv, path |-> frame.path, node |-> frame.node,
   text |-> text, from |-> from]

\* convert() has processed the URLs of the document and calls turndown
InitWalk ==
  \* the documents followed step by step: a paragraph with emphasis, a
  \* table with an empty cell, a figure with a caption, a footnote list, a
  \* nested list, and a table without rows, on which the table rule throws
  LET WalkDocs ==
        {<<El("p", NoAttrs, <<Txt(<<"some", SP>>), El("em", NoAttrs, <<Txt(<<"text">>)>>)>>)>>,
         <<P(<<"text">>),
           El("table", NoAttrs,
              <<El("tr", NoAttrs, <<El("th", NoAttrs, <<Txt(<<"H">>)>>), El("th", NoAttrs, <<>>)>>),
                El("tr", NoAttrs,
                   <<El("td", NoAttrs, <<El("em", NoAttrs, <<Txt(<<"a">>)>>)>>),
                     El("td", NoAttrs, <<Txt(<<"b">>)>>)>>)>>)>>,
         <<El("figure", NoAttrs,
              <<El("img", [a \in {"src", "alt"} |-> IF a = "src" THEN ExampleUrl ELSE <<"pic">>], <<>>),
                El("figcaption", NoAttrs,
                   <<El("em", NoAttrs,
                        <<Txt(<<"the", SP>>), El("strong", NoAttrs, <<Txt(<<"caption">>)>>)>>)>>)>>),
           P(<<"text">>)>>,
         <<P(<<"text">>),
           El("div", [a \in {"id"} |-> <<"footnotes">>],
              <<El("ol", NoAttrs,
                   <<El("li", [a \in {"id"} |-> <<"fn:", "1">>],
                        <<El("sup", NoAttrs, <<Txt(<<"1">>)>>), El("p", NoAttrs, <<Txt(<<"note">>)>>)>>),
                     El("li", [a \in {"id"} |-> <<"cite_note-", "2">>], <<Txt(<<"other">>)>>)>>)>>)>>,
         <<El("ul", NoAttrs,
              <<El("li", NoAttrs,
                   <<Txt(<<"parent">>),
                     El("ul", NoAttrs, <<El("li", NoAttrs, <<Txt(<<"child">>)>>)>>)>>)>>)>>,
         <<P(<<"text">>), El("table", NoAttrs, <<>>), P(<<"more">>)>>}
  IN
  /\ pc = "turndown"
  /\ html \in WalkDocs
  /\ options = [o \in {"baseUrl"} |-> DefaultBase]
  /\ platform = "linux"
  /\ processedHtml = ProcessUrls(html, ParseUrl(DefaultBase, BadUrl))
  /\ markdown = <<>>
  /\ dom = <<>>
  /\ result = <<>>
  /\ suggestedFilename = <<>>
  /\ defaultOptions = DEFAULT_OPTIONS
  /\ defaultClipper = "null"
  /\ calls = <<>>
  /\ walkStack = <<ProcessRoot(1, processedHtml)>>
  /\ walkLog = <<WalkEvent("Started", walkStack[1], <<>>, <<>>)>>
  /\ invocations = 1
  /\ TruncateIdle
  /\ LogseqIdle

\* process: the next child node is an element; replacementForNode calls
\* process for it
ProcessElement ==
  /\ pc = "turndown" /\ walkStack # <<>>
  /\ LET top == walkStack[Len(walkStack)]
     IN /\ top.call = "process"
        /\ top.k <= Len(top.node.kids)
        /\ IsEl(top.node.kids[top.k])
        /\ walkStack' = Append(walkStack,
                               [call |-> "process", inv |-> top.inv,
                                path |-> Append(top.path, top.k),
                                node |-> top.node.kids[top.k],
                                anc |-> <<top.node>> \o top.anc, k |-> 1, output |-> <<>>])
  /\ UNCHANGED <<walkLog, invocations, converterVars, truncateVars, logseqVars>>

\* process: the next child node is a text node; its text is escaped,
\* unless it is code, and joined to the output
ProcessText ==
  /\ pc = "turndown" /\ walkStack # <<>>
  /\ LET top == walkStack[Len(walkStack)]
         below == <<top.node>> \o top.anc
     IN /\ top.call = "process"
        /\ top.k <= Len(top.node.kids)
        /\ ~IsEl(top.node.kids[top.k])
        /\ \E converted \in {IF \E a \in DOMAIN below : below[a].tag = "code"
                              THEN top.node.kids[top.k].text
                              ELSE Escape(top.node.kids[top.k].text)} :
              /\ walkStack' = [walkStack EXCEPT ![Len(walkStack)] = AfterChild(top, converted)]
              /\ walkLog' = Append(walkLog,
                                   WalkEvent("Text",
                                             [top EXCEPT !.path = Append(top.path, top.k),
                                                         !.node = top.node.kids[top.k]],
                                             converted, <<>>))
  /\ UNCHANGED <<invocations, converterVars, truncateVars, logseqVars>>

\* replacementForNode: process(node) has returned the content; the
\* replacement of the node's rule is called with it
ChildrenConverted ==
  /\ pc = "turndown" /\ walkStack # <<>>
  /\ LET top == walkStack[Len(walkStack)]
     IN /\ top.call = "process"
        /\ top.path # <<>>
        /\ top.k > Len(top.node.kids)
        /\ walkStack' =
             [walkStack EXCEPT ![Len(walkStack)] =
                [call |-> "rule", inv |-> top.inv, path |-> top.path, node |-> top.node,
                 anc |-> top.anc, content |-> top.output,
                 pending |-> ReentrantCalls(RuleFor(top.node, top.anc), top.node)]]
        /\ walkLog' = Append(walkLog, WalkEvent("ChildrenConverted", top, top.output, <<>>))
  /\ UNCHANGED <<invocations, converterVars, truncateVars, logseqVars>>

\* a rule calls turndownService.turndown on markup of its own: the empty
\* string is returned at once, other markup is parsed and walked
Reenter ==
  /\ pc = "turndown" /\ walkStack # <<>>
  /\ LET top == walkStack[Len(walkStack)]
         started == WalkEvent("Started", ProcessRoot(invocations + 1, Head(top.pending)),
                              <<>>, <<top.inv, top.path>>)
     IN /\ top.call = "rule"
        /\ ~RuleThrows(top.node)
        /\ top.pending # <<>>
        /\ invocations' = invocations + 1
        /\ IF Head(top.pending) = <<>>
           THEN /\ walkStack' = [walkStack EXCEPT ![Len(walkStack)].pending = Tail(top.pending)]
                /\ walkLog' = walkLog \o <<started, [started EXCEPT !.event = "Returned"]>>
           ELSE /\ walkStack' = Append(walkStack, ProcessRoot(invocations + 1, Head(top.pending)))
                /\ walkLog' = Append(walkLog, started)
  /\ UNCHANGED <<converterVars, truncateVars, logseqVars>>

\* turndown returns: the output of process(root) without the white space
\* around it, to the rule that called or to convert()
TurndownReturns ==
  /\ pc = "turndown" /\ walkStack # <<>>
  /\ LET top == walkStack[Len(walkStack)]
         rest == SubSeq(walkStack, 1, Len(walkStack) - 1)
         returned == DropTrailing(DropLeading(top.output, {TAB, NL}), {TAB, NL, SP})
     IN /\ top.call = "process"
        /\ top.path = <<>>
        /\ top.k > Len(top.node.kids)
        /\ walkLog' = Append(walkLog, WalkEvent("Returned", top, returned, <<>>))
        /\ IF rest = <<>>
           THEN /\ walkStack' = <<>>
                /\ markdown' = returned
                /\ pc' = "walked"
           ELSE /\ walkStack' = [rest EXCEPT ![Len(rest)].pending = Tail(rest[Len(rest)].pending)]
                /\ UNCHANGED <<markdown, pc>>
  /\ UNCHANGED <<html, options, platform, processedHtml, dom, result, suggestedFilename,
                 defaultOptions, defaultClipper, calls, invocations, truncateVars, logseqVars>>

\* the replacement of the node's rule returns and process joins it to the
\* output of the parent node
Emit ==
  /\ pc = "turndown" /\ walkStack # <<>>
  /\ LET top == walkStack[Len(walkStack)]
         rest == SubSeq(walkStack, 1, Len(walkStack) - 1)
     IN /\ top.call = "rule"
        /\ ~RuleThrows(top.node)
        /\ top.pending = <<>>
        /\ \E replacement \in {Replacement(RuleFor(top.node, top.anc), top.content, top.node,
                                           top.anc, top.path[Len(top.path)],
                                           MergeOptions(DEFAULT_OPTIONS, options))} :
              /\ walkStack' = [rest EXCEPT ![Len(rest)] = AfterChild(rest[Len(rest)], replacement)]
              /\ walkLog' = Append(walkLog, WalkEvent("Emitted", top, replacement, <<>>))
  /\ UNCHANGED <<invocations, converterVars, truncateVars, logseqVars>>

\* the replacement of the node's rule throws: the exception leaves every
\* call of process and of turndown
RuleThrown ==
  /\ pc = "turndown" /\ walkStack # <<>>
  /\ walkStack[Len(walkStack)].call = "rule"
  /\ RuleThrows(walkStack[Len(walkStack)].node)
  /\ walkStack' = <<>>
  /\ pc' = "failed"
  /\ UNCHANGED <<html, options, platform, processedHtml, markdown, dom, result,
                 suggestedFilename, defaultOptions, defaultClipper, calls, walkLog,
                 invocations, truncateVars, logseqVars>>

NextWalk ==
  \/ ProcessElement \/ ProcessText \/ ChildrenConverted \/ Reenter
  \/ TurndownReturns \/ Emit \/ RuleThrown

SpecWalk == InitWalk /\ [][NextWalk]_vars

(***************************************************************************)
(* The Logseq plugin (logseq/app.tsx): the clipped markdown is parsed to   *)
(* a hierarchy of blocks, and the blocks are inserted through the editor   *)
(* API.  A line is a sequence of tokens: "#", ">", "|", "-", a digit, ".", *)
(* a backtick, white space, or a word.                                     *)
(***************************************************************************)
MaxLines == 3

\* a Block; level is 0 and language is empty where the program leaves them
\* undefined
Block(type, content, level, language, children) ==
  [type |-> type, content |-> content, level |-> level, language |-> language,
   children |-> children]

RECURSIVE BlockAt(_, _)
\* the block that a headingStack entry refers to: the path leads from
\* rootBlocks through the children arrays
BlockAt(blocks, path) ==
  IF Len(path) = 1 THEN blocks[path[1]]
  ELSE BlockAt(blocks[path[1]].children, Tail(path))

RECURSIVE PushBlock(_, _, _)
\* parent.children.push(block) for the parent at the path, rootBlocks.push
\* for the empty path
PushBlock(blocks, path, block) ==
  IF path = <<>> THEN Append(blocks, block)
  ELSE [blocks EXCEPT ![path[1]].children = PushBlock(@, Tail(path), block)]

\* one iteration of the outer loop of parseMarkdownToBlocks, from line
\* index i: the branch taken, and i, rootBlocks and headingStack after it
LoopIteration(ls, i, roots, stack) ==
  \* trimmedLine.match(/^(#{1,6})\s+(.+)$/): no match, or the level and the
  \* content
  LET HeadingMatch(trimmedLine) ==
        LET rest == DropLeading(trimmedLine, {"#"})
            level == Len(trimmedLine) - Len(rest)
        IN IF level \in 1..6 /\ rest # <<>> /\ IsSpace(rest[1]) /\ TrimStart(rest) # <<>>
           THEN <<[level |-> level, content |-> TrimStart(rest)]>>
           ELSE <<>>
  IN
  \* line.replace(/^[-*+]\s/, '').replace(/^\d+\.\s/, '')
  LET ListItemContent(line) ==
        LET unbulleted == IF Len(line) >= 2 /\ line[1] \in {"-", "*", "+"} /\ IsSpace(line[2])
                          THEN SubSeq(line, 3, Len(line)) ELSE line
            rest == DropLeading(unbulleted, Digits)
        IN IF Len(rest) < Len(unbulleted) /\ Len(rest) >= 2 /\ rest[1] = "." /\ IsSpace(rest[2])
           THEN SubSeq(rest, 3, Len(rest)) ELSE unbulleted
  IN
  \* /^[-*+]\s/.test(line) || /^\d+\.\s/.test(line)
  LET IsListLine(line) ==
        \/ Len(line) >= 2 /\ line[1] \in {"-", "*", "+"} /\ IsSpace(line[2])
        \/ LET rest == DropLeading(line, Digits)
           IN Len(rest) < Len(line) /\ Len(rest) >= 2 /\ rest[1] = "." /\ IsSpace(rest[2])
  IN
  LET at(j) == ls[j + 1]
      trimmedLine == Trim(at(i))
      fence == <<BT, BT, BT>>
      \* the index at which a loop `while (j < lines.length && test(lines[j])) j++` ends
      scan(from, test(_)) ==
        CHOOSE j \in from..Max(from, Len(ls)) :
          /\ j >= Len(ls) \/ ~test(at(j))
          /\ \A m \in from..(j - 1) : test(at(m))
      parentPath == IF stack = <<>> THEN <<>> ELSE stack[Len(stack)].path
      added(block) == PushBlock(roots, parentPath, block)
      after(branch, next, blocks, headings) ==
        [branch |-> branch, i |-> next, rootBlocks |-> blocks, headingStack |-> headings]
      joined(from, to, line(_), sep) ==
        JoinWith([k \in 1..(to - from) |-> line(at(from + k - 1))], sep)
      raw(line) == line
      isFence(line) == StartsWith(Trim(line), fence)
      isQuote(line) == StartsWith(Trim(line), <<">">>)
      isTable(line) == Includes(Trim(line), <<"|">>)
      isList(line) == IsListLine(Trim(line))
      endsParagraph(line) ==
        \/ Trim(line) = <<>>
        \/ StartsWith(Trim(line), <<"#">>)
        \/ isQuote(line) \/ isFence(line) \/ isTable(line) \/ isList(line)
      inParagraph(line) == ~endsParagraph(line)
      notFence(line) == ~isFence(line)
      quoted(line) == Trim(Tail(Trim(line)))
      item(line) == <<Block("listItem", ListItemContent(Trim(line)), 0, <<>>, <<>>)>>
  IN IF trimmedLine = <<>> THEN after("empty", i + 1, roots, stack)
     ELSE IF HeadingMatch(trimmedLine) # <<>>
     THEN LET match == HeadingMatch(trimmedLine)[1]
              popped == LET keep == {n \in 0..Len(stack) :
                                       /\ n = 0 \/ stack[n].level < match.level
                                       /\ \A m \in (n + 1)..Len(stack) : stack[m].level >= match.level}
                        IN SubSeq(stack, 1, CHOOSE n \in keep : TRUE)
              path == IF popped = <<>> THEN <<Len(roots) + 1>>
                      ELSE Append(popped[Len(popped)].path,
                                  Len(BlockAt(roots, popped[Len(popped)].path).children) + 1)
          IN after("heading", i + 1,
                   PushBlock(roots, IF popped = <<>> THEN <<>> ELSE popped[Len(popped)].path,
                             Block("heading", match.content, match.level, <<>>, <<>>)),
                   Append(popped, [path |-> path, level |-> match.level]))
     ELSE IF StartsWith(trimmedLine, fence)
     THEN LET closing == scan(i + 1, notFence)
          IN after("code", closing + 1,
                   added(Block("code", joined(i + 1, closing, raw, <<NL>>), 0,
                               Trim(SubSeq(trimmedLine, 4, Len(trimmedLine))), <<>>)),
                   stack)
     ELSE IF StartsWith(trimmedLine, <<">">>)
     THEN LET end == scan(i, isQuote)
          IN after("quote", end, added(Block("quote", joined(i, end, quoted, <<NL>>), 0, <<>>, <<>>)),
                   stack)
     ELSE IF Includes(trimmedLine, <<"|">>)
     THEN LET end == scan(i, isTable)
          IN after("table", end, added(Block("table", joined(i, end, Trim, <<NL>>), 0, <<>>, <<>>)),
                   stack)
     ELSE IF IsListLine(trimmedLine)
     THEN LET end == scan(i, isList)
          IN after("list", IF end < Len(ls) /\ Trim(at(end)) = <<>> THEN end + 1 ELSE end,
                   added(Block("list", <<>>, 0, <<>>, joined(i, end, item, <<>>))),
                   stack)
     ELSE LET end == scan(i, inParagraph)
          IN after("paragraph", end,
                   IF end > i THEN added(Block("paragraph", joined(i, end, Trim, <<SP>>), 0, <<>>, <<>>))
                   ELSE roots,
                   stack)

\* blockToMarkdown
BlockToMarkdown(block) ==
  CASE block.type = "code" ->
         IF block.language # <<>>
         THEN <<BT, BT, BT>> \o block.language \o <<NL>> \o block.content \o <<NL, BT, BT, BT>>
         ELSE <<BT, BT, BT, NL>> \o block.content \o <<NL, BT, BT, BT>>
    [] block.type = "quote" -> JoinWith(Split(block.content, NL), <<NL>>)
    [] block.type = "list" -> <<>>
    [] OTHER -> block.content

\* what the program holds where it has no UUID, and what the editor
\* returns where it inserts nothing
Undefined == <<"undefined">>
\* a call of the editor API, as editorCalls records it: `level` is the
\* parentBlockUUID of the call of insertBlocksRecursively that made it
\* (empty for a call made by a handler), `returned` the UUID of the block
\* the editor returned
EditorCall(method, target, content, sibling, level, returned) ==
  [method |-> method, target |-> target, content |-> content, sibling |-> sibling,
   level |-> level, returned |-> returned]

RECURSIVE InsertBlocksFrom(_, _, _, _, _, _)
\* the loop of insertBlocksRecursively from index i: `done` holds the
\* editor calls made so far, insertedUUIDs, and the number of the next
\* block of the editor.  The editor returns a new block for a call on an
\* existing block or page; for a call on an undefined UUID it returns a
\* block or null, as `orphan` says.
InsertBlocksFrom(blocks, parentBlockUUID, isPageLevel, i, done, orphan) ==
  LET Null == <<"null">>
  IN
  IF i >= Len(blocks) THEN done
  ELSE LET block == blocks[i + 1]
           content == BlockToMarkdown(block)
           uuid == <<"uuid", done.next>>
           call == IF isPageLevel /\ i = 0
                   THEN EditorCall("appendBlockInPage", parentBlockUUID, content, FALSE,
                                   parentBlockUUID, uuid)
                   ELSE IF ~isPageLevel /\ i = 0
                   THEN EditorCall("insertBlock", parentBlockUUID, content, FALSE,
                                   parentBlockUUID, uuid)
                   ELSE LET previousBlockUUID ==
                              IF done.insertedUUIDs = <<>> THEN Undefined
                              ELSE done.insertedUUIDs[Len(done.insertedUUIDs)]
                        IN EditorCall("insertBlock", previousBlockUUID, content, TRUE,
                                      parentBlockUUID,
                                      IF previousBlockUUID = Undefined /\ ~orphan
                                      THEN Null ELSE uuid)
           property == IF block.type = "heading" /\ block.level # 0
                       THEN <<EditorCall("upsertBlockProperty", uuid, <<"heading">>, FALSE,
                                         parentBlockUUID, Null)>>
                       ELSE IF block.type = "quote"
                       THEN <<EditorCall("addBlockTag", uuid, <<"Quote-block">>, FALSE,
                                         parentBlockUUID, Null)>>
                       ELSE <<>>
           inner(children, parent, pageLevel, made, number) ==
             InsertBlocksFrom(children, parent, pageLevel, 0,
                              [calls |-> made, insertedUUIDs |-> <<>>, next |-> number], orphan)
       IN IF block.type = "list" /\ block.children # <<>>
          THEN LET listed == inner(block.children, parentBlockUUID, isPageLevel /\ i = 0,
                                   done.calls, done.next)
               IN InsertBlocksFrom(blocks, parentBlockUUID, isPageLevel, i + 1,
                                   [listed EXCEPT !.insertedUUIDs =
                                                     done.insertedUUIDs \o listed.insertedUUIDs],
                                   orphan)
          ELSE IF Trim(content) = <<>>
          THEN InsertBlocksFrom(blocks, parentBlockUUID, isPageLevel, i + 1, done, orphan)
          ELSE IF call.returned = Null
          THEN InsertBlocksFrom(blocks, parentBlockUUID, isPageLevel, i + 1,
                                [done EXCEPT !.calls = Append(done.calls, call)], orphan)
          ELSE LET inserted == [calls |-> Append(done.calls, call) \o property,
                                insertedUUIDs |-> Append(done.insertedUUIDs, uuid),
                                next |-> done.next + 1]
                   nested == IF block.children # <<>>
                             THEN inner(block.children, uuid, FALSE, inserted.calls, inserted.next)
                             ELSE inserted
               IN InsertBlocksFrom(blocks, parentBlockUUID, isPageLevel, i + 1,
                                   [inserted EXCEPT !.calls = nested.calls, !.next = nested.next],
                                   orphan)

\* insertBlocksRecursively(blocks, parentBlockUUID, isPageLevel): the
\* editor calls it makes
InsertBlocksRecursively(blocks, parentBlockUUID, isPageLevel, next, orphan) ==
  InsertBlocksFrom(blocks, parentBlockUUID, isPageLevel, 0,
                   [calls |-> <<>>, insertedUUIDs |-> <<>>, next |-> next], orphan).calls

\* editableMarkdown holds some markdown and a handler calls
\* parseMarkdownToBlocks(content): lines = markdown.split('\n')
InitLogseq ==
  \* the lines the clipped markdown is made of
  LET MarkdownLines ==
        {<<>>,
         <<"#", SP, "Title">>,
         <<"#", "#", SP, "Section">>,
         <<"#", "tag">>,
         <<"#", "#", "#", "#", "#", "#", "#", SP, "seven">>,
         <<BT, BT, BT, "js">>,
         <<BT, BT, BT>>,
         <<">">>,
         <<">", SP, "quoted">>,
         <<"|", "cell", "|">>,
         <<"-", SP, "item">>,
         <<"1", ".", SP, "first">>,
         <<SP, "text">>}
  IN
  /\ \E n \in 0..MaxLines :
       \E content \in [1..n -> MarkdownLines] : lines = Split(JoinWith(content, <<NL>>), NL)
  /\ lineIndex = 0
  /\ rootBlocks = <<>>
  /\ headingStack = <<>>
  /\ logseqPc = "parsing"
  /\ editorCalls = <<>>
  /\ ConverterIdle
  /\ TruncateIdle
  /\ WalkIdle

\* the iteration of the outer loop from the current line takes the given
\* branch
Iterate(branch) ==
  /\ \E after \in {LoopIteration(lines, lineIndex, rootBlocks, headingStack)} :
       /\ after.branch = branch
       /\ lineIndex' = after.i
       /\ rootBlocks' = after.rootBlocks
       /\ headingStack' = after.headingStack
  /\ UNCHANGED <<lines, logseqPc, editorCalls, converterVars, truncateVars, walkVars>>

\* the line is empty after trim()
SkipEmptyLine ==
  /\ logseqPc = "parsing"
  /\ lineIndex < Len(lines)
  /\ Iterate("empty")

\* the line matches the heading pattern
ParseHeading ==
  /\ logseqPc = "parsing"
  /\ lineIndex < Len(lines)
  /\ Iterate("heading")

\* the line opens a fenced code block
ParseCodeBlock ==
  /\ logseqPc = "parsing"
  /\ lineIndex < Len(lines)
  /\ Iterate("code")

\* the line starts a quote
ParseQuote ==
  /\ logseqPc = "parsing"
  /\ lineIndex < Len(lines)
  /\ Iterate("quote")

\* the line holds a |
ParseTable ==
  /\ logseqPc = "parsing"
  /\ lineIndex < Len(lines)
  /\ Iterate("table")

\* the line is a list item
ParseList ==
  /\ logseqPc = "parsing"
  /\ lineIndex < Len(lines)
  /\ Iterate("list")

\* any other line: the paragraph branch
ParseParagraph ==
  /\ logseqPc = "parsing"
  /\ lineIndex < Len(lines)
  /\ Iterate("paragraph")


\* the outer loop ends and parseMarkdownToBlocks returns rootBlocks
ReturnBlocks ==
  /\ logseqPc = "parsing"
  /\ lineIndex >= Len(lines)
  /\ logseqPc' = "parsed"
  /\ UNCHANGED <<lines, lineIndex, rootBlocks, headingStack, editorCalls, converterVars,
                 truncateVars, walkVars>>

\* handleConfirm: the handler of the insert mode inserts its header or
\* source block and then the parsed blocks; without a current block, a
\* journal page or a created page it inserts nothing
HandleConfirm ==
  LET InsertModes == {"currentBlock", "newPage", "todayJournal"}
  IN
  /\ logseqPc = "parsed"
  /\ logseqPc' = "inserted"
  /\ \E mode \in InsertModes, found \in BOOLEAN, orphan \in BOOLEAN :
       LET header == <<"uuid", 1>>
           pageName == <<"page">>
           blocks(parent, isPageLevel) ==
             IF rootBlocks # <<>>
             THEN InsertBlocksRecursively(rootBlocks, parent, isPageLevel, 2, orphan)
             ELSE <<>>
       IN editorCalls' =
            IF ~found THEN <<>>
            ELSE CASE mode = "currentBlock" ->
                        <<EditorCall("insertBlock", <<"current">>, <<"Clipped from">>, TRUE,
                                     <<>>, header)>> \o blocks(header, FALSE)
                   [] mode = "newPage" ->
                        <<EditorCall("appendBlockInPage", pageName, <<"Source">>, FALSE,
                                     <<>>, header)>> \o blocks(pageName, TRUE)
                   [] mode = "todayJournal" ->
                        <<EditorCall("appendBlockInPage", <<"journal">>, <<"Clipped from">>,
                                     FALSE, <<>>, header)>> \o blocks(header, FALSE)
  /\ UNCHANGED <<lines, lineIndex, rootBlocks, headingStack, converterVars, truncateVars,
                 walkVars>>

NextLogseq ==
  \/ SkipEmptyLine \/ ParseHeading \/ ParseCodeBlock \/ ParseQuote \/ ParseTable
  \/ ParseList \/ ParseParagraph \/ ReturnBlocks \/ HandleConfirm

SpecLogseq == InitLogseq /\ [][NextLogseq]_vars

(***************************************************************************)
(* What convert() returned, read back from the returned string.            *)
(***************************************************************************)
Returned == pc = "returned"

\* processUrls has run: convert() got past the base URL
Processed == pc \in {"returned", "failed"}

\* the lines of the returned string
ResultLines == Split(result, NL)

ContainsToken(s, t) == \E k \in DOMAIN s : s[k] = t

\* the cells of a pipe-table line: its unescaped '|' delimit them
CellCount(line) ==
  Cardinality({k \in DOMAIN line : line[k] = "|" /\ (k = 1 \/ line[k - 1] # "\\")}) - 1

\* the '---' entries of a separator line
SeparatorEntries(line) == Cardinality({k \in DOMAIN line : line[k] = "---"})

\* the td/th cells of a table that carry a span attribute
SpanCells(table) ==
  {k \in DOMAIN Descendants(table) :
     /\ Descendants(table)[k].tag \in {"td", "th"}
     /\ {"colspan", "rowspan"} \cap DOMAIN Descendants(table)[k].attrs # {}}

\* the attribute names written in a string of markup
AttributeNamesIn(s) ==
  {s[k] : k \in {j \in 2..(Len(s) - 2) : s[j - 1] = SP /\ s[j + 1] = "=" /\ s[j + 2] = "\""}}

\* the attributes of an element and of everything below it, in document order
AttributesBelow(node) ==
  <<node.attrs>> \o ArrayOf([k \in DOMAIN Descendants(node) |-> Descendants(node)[k].attrs])

RECURSIVE LeadingTabs(_)
LeadingTabs(line) ==
  IF line # <<>> /\ Head(line) = TAB THEN 1 + LeadingTabs(Tail(line)) ELSE 0

\* the lines of the returned string that are not empty
WrittenLines == SelectSeq(ResultLines, LAMBDA line : line # <<>>)

\* C1: every row of a converted simple table has as many cells as the
\* separator row has '---' entries, and that is the cell count of the
\* table's first row, whatever the cells hold ('|' included)
C1_SimpleTableColumnsAgree ==
  (Returned /\ html \in SimpleTableDocs) =>
     /\ Len(ResultLines) >= 2
     /\ SeparatorEntries(ResultLines[2]) = Len(RowCells(TableRows(html[1])[1]))
     /\ \A l \in DOMAIN ResultLines :
          CellCount(ResultLines[l]) = SeparatorEntries(ResultLines[2])

\* C2: a table is complex iff one of its td/th cells has colspan or rowspan;
\* a complex table comes out as raw table markup, never as pipe rows, with
\* allow-listed attributes only, and the table that was converted keeps
\* every attribute it had
C2_ComplexTablesAreSanitisedCopies ==
  (Returned /\ html \in SimpleTableDocs \cup AttrTableDocs) =>
     /\ StartsWith(result, <<"<", "table">>) <=> SpanCells(processedHtml[1]) # {}
     /\ StartsWith(result, <<"|">>) <=> SpanCells(processedHtml[1]) = {}
     /\ SpanCells(processedHtml[1]) # {} =>
          /\ ~ContainsToken(result, "|") /\ ~ContainsToken(result, "---")
          /\ AttributeNamesIn(result) \subseteq
               {"src", "href", "style", "align", "width", "height", "rowspan",
                "colspan", "bgcolor", "scope", "valign", "headers"}
          /\ AttributeNamesIn(result) \cap {"rowspan", "colspan"} # {}
     /\ AttributesBelow(dom[1]) = AttributesBelow(processedHtml[1])

\* a complex table carrying class and id attributes has been converted
C2_Witness ==
  /\ Returned /\ html \in AttrTableDocs
  /\ SpanCells(processedHtml[1]) # {}
  /\ {"class", "id"} \subseteq DOMAIN html[1].attrs
  /\ \E k \in SpanCells(html[1]) : "class" \in DOMAIN Descendants(html[1])[k].attrs
  /\ StartsWith(result, <<"<", "table">>)

\* C3: a list item with d ul/ol ancestors has its marker line start with
\* exactly d - 1 tabs, for every mix of ul and ol and for both shapes of
\* nesting (the item of level j holds the text Words[j])
C3_NestedItemsIndentByDepth ==
  (Returned /\ html \in NestedListDocs) =>
     \A l \in DOMAIN ResultLines : \A j \in 1..MaxDepth :
        ContainsToken(ResultLines[l], Words[j]) =>
           /\ LeadingTabs(ResultLines[l]) = j - 1
           /\ ResultLines[l][j] \notin {TAB, SP}

\* C4: item k (0-based) of an ordered list renders as s + k when the list
\* has start = s (s = 0 included) and as 1 + k when it has none; empty
\* items are dropped and do not change the numbers of the others
C4_OrderedItemsCountFromStart ==
  (Returned /\ html \in OrderedListDocs) =>
     LET list == html[1]
         s == IF HasAttr(list, "start") THEN ParseNumber(list.attrs["start"]) ELSE 1
         present == SelectSeq(Positions(list.kids), LAMBDA k : list.kids[k].kids # <<>>)
     IN WrittenLines =
          ArrayOf([m \in DOMAIN present |->
                     NumberToString(s + (present[m] - 1)) \o <<".", SP, Words[present[m]]>>])

\* a list with start="0" whose second item is empty has been converted,
\* and its third item carries the number 2
C4_Witness ==
  /\ Returned /\ html \in OrderedListDocs
  /\ Attr(html[1], "start") = <<"0">>
  /\ html[1].kids[1].kids # <<>> /\ html[1].kids[2].kids = <<>> /\ html[1].kids[3].kids # <<>>
  /\ Occurrences(result, <<"2", ".", SP, Words[3]>>) # {}

\* the list items of a document, in document order
ListItems(nodes) == SelectSeq(DescendantsOf(nodes), LAMBDA d : d.tag = "li")

\* the text a list item of the task-list documents holds
ItemText(item) == (SelectSeq(item.kids, LAMBDA n : ~IsEl(n))[1]).text[1]

\* the checkbox that is a child of the item itself
OwnCheckboxes(item) == SelectSeq(item.kids, LAMBDA n : IsEl(n) /\ IsCheckbox(n))

\* what stands between the bullet and the text on the line of an item
MarkerBefore(text) ==
  LET line == SelectSeq(ResultLines, LAMBDA ln : ContainsToken(ln, text))[1]
      at == CHOOSE k \in DOMAIN line : line[k] = text
      bullet == CHOOSE k \in DOMAIN line : line[k] = "-"
  IN SubSeq(line, bullet + 2, at - 1)

\* C5: a task-list item (class task-list-item, with a checkbox) is prefixed
\* by "[x] " iff its own checkbox is checked and by "[ ] " otherwise, the
\* checkbox markup is gone, and any other list item has no marker
C5_TaskMarkersFollowOwnCheckbox ==
  (Returned /\ html \in TaskListDocs) =>
     /\ ~ContainsToken(result, "input")
     /\ \A k \in DOMAIN ListItems(html) :
          LET item == ListItems(html)[k]
              own == OwnCheckboxes(item)
              isTask == "task-list-item" \in ClassList(item) /\ own # <<>>
          IN MarkerBefore(ItemText(item)) =
               (IF ~isTask THEN <<>>
                ELSE IF HasAttr(own[1], "checked") THEN <<"[", "x", "]", SP>>
                ELSE <<"[", SP, "]", SP>>)

\* C6: math inside a table cell is written inline, `$latex$` and never the
\* `$$` block form, whatever its display mode and notation
C6_MathInTableIsInline ==
  (Returned /\ html \in MathDocs /\ html[1].tag = "table") =>
     /\ ContainsToken(result, "$")
     /\ Occurrences(result, <<"$", "$">>) = {}

\* the headings written in s, in order: for every run of '#' that a space
\* follows, the length of the run and the first token of the heading text
HeadingMarks(s) ==
  LET starts == SelectSeq(Positions(s), LAMBDA k : s[k] = "#" /\ (k = 1 \/ s[k - 1] \notin {"#", "\\"}))
      run(k) == HashRun(SubSeq(s, k, Len(s)))
      marks == SelectSeq(starts, LAMBDA k : k + run(k) + 1 <= Len(s) /\ s[k + run(k)] = SP)
  IN ArrayOf([m \in DOMAIN marks |-> <<run(marks[m]), s[marks[m] + run(marks[m]) + 1]>>])

\* the Markdown begins with a level-1 heading line that newlines follow
Titled(s) ==
  /\ StartsWith(s, <<"#", SP>>)
  /\ Len(s) >= 3 /\ s[3] # NL
  /\ ContainsToken(s, NL)

C8_NoThreeNewlines ==
  pc \in {"returned", "failed"} => Occurrences(result, <<NL, NL, NL>>) = {}

\* the empty links `[](url)` of s that no '!' precedes
EmptyLinksIn(s) == {j \in DOMAIN s : EmptyLinkAt(s, j)}

\* the empty-text image placeholders `![](url)` of s
ImagePlaceholders(s) ==
  {j \in 1..(Len(s) - 3) : s[j] = "!" /\ s[j + 1] = "[" /\ s[j + 2] = "]" /\ s[j + 3] = "("}

\* the image placeholders on the first line of s
PlaceholdersOnFirstLine(s) == {j \in ImagePlaceholders(s) : j < FirstOf(s, {NL})}

\* C9 as stated: the returned Markdown has no empty non-image link, and
\* every image placeholder the engine wrote is still there
C9_EmptyLinksGoImagesStay ==
  Returned =>
     /\ EmptyLinksIn(result) = {}
     /\ Cardinality(ImagePlaceholders(result)) = Cardinality(ImagePlaceholders(markdown))

\* C9: the returned Markdown has no empty non-image link, and every image
\* placeholder the engine wrote outside a leading title that is stripped is
\* still there
C9_EmptyLinksGoImagesOutsideTitleStay ==
  Returned =>
     /\ EmptyLinksIn(result) = {}
     /\ Cardinality(ImagePlaceholders(result)) =
          Cardinality(ImagePlaceholders(markdown))
          - (IF Titled(markdown) THEN Cardinality(PlaceholdersOnFirstLine(markdown)) ELSE 0)

\* a document whose leading title holds an image, followed by an empty
\* link and an image, has been converted
C9_Witness ==
  /\ Returned
  /\ Titled(markdown) /\ PlaceholdersOnFirstLine(markdown) # {}
  /\ EmptyLinksIn(markdown) # {}
  /\ ImagePlaceholders(result) # {}

\* a reference that is resolved against the base: no scheme, not
\* protocol-relative, not fragment-only
IsRelativeReference(value) ==
  /\ value # <<>>
  /\ Head(value) \notin Schemes
  /\ Head(value) # "#"
  /\ ~(Len(value) >= 2 /\ value[1] = "/" /\ value[2] = "/")

\* C10: every element that carries a relative src or href has it replaced
\* by the standard resolution of the value against the base URL normalised
\* to a directory
C10_RelativeUrlsBecomeAbsolute ==
  Processed =>
     \A k \in DOMAIN DescendantsOf(html) : \A a \in {"src", "href"} :
        LET before == DescendantsOf(html)[k]
            after == DescendantsOf(processedHtml)[k]
        IN (HasAttr(before, a) /\ IsRelativeReference(before.attrs[a])) =>
             after.attrs[a] =
               Href(ParseUrl(before.attrs[a],
                             ResolvedBaseUrl(ParseUrl(options.baseUrl, BadUrl))))

\* a value the resolver is to leave alone: absolute http(s), a data: URI,
\* fragment-only, or protocol-relative
IsAlreadyResolved(value) ==
  /\ value # <<>>
  /\ \/ Head(value) \in {"http:", "https:", "data:"}
     \/ Head(value) = "#"
     \/ (Len(value) >= 2 /\ value[1] = "/" /\ value[2] = "/")

\* C11: an attribute whose value is absolute (http: or https:), a data:
\* URI, fragment-only or protocol-relative holds exactly the same value
\* after processUrls
C11_ResolvedValuesStayUntouched ==
  Processed =>
     \A k \in DOMAIN DescendantsOf(html) : \A a \in {"src", "srcset", "href"} :
        LET before == DescendantsOf(html)[k]
            after == DescendantsOf(processedHtml)[k]
        IN (HasAttr(before, a) /\ IsAlreadyResolved(before.attrs[a])) =>
             after.attrs[a] = before.attrs[a]

\* the candidates of a srcset value: its comma-separated parts, trimmed
SrcsetCandidates(value) ==
  LET parts == Split(value, ",") IN ArrayOf([k \in DOMAIN parts |-> Trim(parts[k])])

\* the URL of a candidate, and the descriptor that follows its first space
CandidateUrl(candidate) == SubSeq(candidate, 1, FirstOf(candidate, {SP}) - 1)

CandidateDescriptor(candidate) == SubSeq(candidate, FirstOf(candidate, {SP}) + 1, Len(candidate))

\* the candidate the claim expects for an input candidate; a candidate
\* whose URL cannot be resolved is expected as it was
ResolvedCandidate(candidate, baseUrl) ==
  IF ~ParseUrl(CandidateUrl(candidate), ResolvedBaseUrl(baseUrl)).ok THEN candidate
  ELSE Href(ParseUrl(CandidateUrl(candidate), ResolvedBaseUrl(baseUrl)))
       \o (IF CandidateDescriptor(candidate) = <<>> THEN <<>>
           ELSE <<SP>> \o CandidateDescriptor(candidate))

\* C12: after processUrls a srcset has as many candidates as before, and
\* each is the absolute URL of the corresponding input candidate followed
\* by that candidate's descriptor
C12_SrcsetCandidatesResolvedOneByOne ==
  Processed =>
     \A k \in DOMAIN DescendantsOf(html) :
        LET before == DescendantsOf(html)[k]
            after == DescendantsOf(processedHtml)[k]
            given == SrcsetCandidates(Attr(before, "srcset"))
            got == SrcsetCandidates(Attr(after, "srcset"))
        IN (before.tag = "img" /\ HasAttr(before, "srcset")) =>
             /\ Len(got) = Len(given)
             /\ \A c \in DOMAIN given :
                  got[c] = ResolvedCandidate(given[c], ParseUrl(options.baseUrl, BadUrl))

\* the iframes of the input that carry a non-empty src
IframesWithSrc(nodes) ==
  SelectSeq(DescendantsOf(nodes), LAMBDA n : n.tag = "iframe" /\ Attr(n, "src") # <<>>)

YoutubePlaceholder ==
  <<"!", "[", "]", "(", "https:", "/", "/", "www.youtube.com", "/", "watch", "?", "v", "=">>

PostPlaceholder ==
  <<"!", "[", "]", "(", "https:", "/", "/", "x.com", "/", "i", "/", "status", "/">>

\* C13: an iframe with a non-empty src is in the result either as the
\* placeholder of the canonical video or post URL or as its own markup; it
\* is never dropped
C13_IframesRewrittenOrKept ==
  (Returned /\ IframesWithSrc(html) # <<>>) =>
     \/ Includes(result, YoutubePlaceholder)
     \/ Includes(result, PostPlaceholder)
     \/ Includes(result, <<"<", "iframe">>)

\* C14: convert() never raises an error past its caller; an error at any
\* stage, base-URL handling included, ends in the returned partial result
\* that starts with the marker text
C14_ConvertNeverThrows ==
  /\ "baseUrl" \in DOMAIN options => pc # "threw"
  /\ pc = "failed" => StartsWith(result, PartialPrefix)

\* a value new URL() rejects against the base
IsMalformed(value, baseUrl) ==
  value # <<>> /\ ~ParseUrl(value, ResolvedBaseUrl(baseUrl)).ok

\* the img and a elements of the input with a malformed src, srcset or href
MalformedAttributes(nodes, baseUrl) ==
  {<<k, a>> \in (DOMAIN DescendantsOf(nodes)) \X {"src", "srcset", "href"} :
     /\ DescendantsOf(nodes)[k].tag \in {"img", "a"}
     /\ IsMalformed(Attr(DescendantsOf(nodes)[k], a), baseUrl)}

\* C15: when one attribute value cannot be resolved, that attribute keeps
\* its original value, the relative values of the other attributes are
\* still resolved, and convert() returns normally
C15_FailedResolutionKeepsValue ==
  LET baseUrl == ParseUrl(options.baseUrl, BadUrl)
  IN (Processed /\ MalformedAttributes(html, baseUrl) # {}) =>
       /\ Returned
       /\ \A k \in DOMAIN DescendantsOf(html) : \A a \in {"src", "srcset", "href"} :
            LET before == DescendantsOf(html)[k]
                after == DescendantsOf(processedHtml)[k]
            IN /\ <<k, a>> \in MalformedAttributes(html, baseUrl) =>
                    after.attrs[a] = before.attrs[a]
               /\ (/\ before.tag \in {"img", "a"} /\ HasAttr(before, a)
                   /\ IsRelativeReference(before.attrs[a])) =>
                    after.attrs[a] =
                      Href(ParseUrl(before.attrs[a], ResolvedBaseUrl(baseUrl)))

\* a document with a malformed value and a relative one has been converted
C15_Witness ==
  LET baseUrl == ParseUrl(options.baseUrl, BadUrl)
  IN /\ Returned /\ baseUrl.ok
     /\ MalformedAttributes(html, baseUrl) # {}
     /\ \E k \in DOMAIN DescendantsOf(html) : \E a \in {"src", "href"} :
          /\ HasAttr(DescendantsOf(html)[k], a)
          /\ IsRelativeReference(DescendantsOf(html)[k].attrs[a])
          /\ DescendantsOf(processedHtml)[k].attrs[a] # DescendantsOf(html)[k].attrs[a]

\* the math elements of the document whose conversion to LaTeX fails: no
\* attribute or annotation declares the LaTeX and the converter rejects
\* the markup
FailingMath(nodes) ==
  SelectSeq(DescendantsOf(nodes),
            LAMBDA n : /\ n.tag = "math"
                       /\ ConvertedMath(n) # <<>>
                       /\ MathMLThrows(n))

\* C16: when the LaTeX of a math node cannot be produced, in any of the
\* notations, the node is replaced by its converted child content (no math
\* delimiters are written), the rest of the document is converted, and
\* convert() does not end in the partial result
C16_MathFailureFallsBackToContent ==
  (Processed /\ FailingMath(html) # <<>>) =>
     /\ Returned
     /\ Includes(result, <<"text">>)
     /\ ~ContainsToken(result, "$")


\* every style option written out with its default value
DefaultsGiven == [o \in DOMAIN DEFAULT_OPTIONS |-> <<DEFAULT_OPTIONS[o]>>]

\* C17: a style option the caller leaves unspecified takes its default
\* value, when convert() is called directly and when clip() is called with
\* only a url: the markdown of clip(html, {url}) is the string
\* convert(extract(html).content, {baseUrl: url}) returns
C17_UnspecifiedOptionsTakeDefaults ==
  /\ Returned =>
       result = ConvertCall(html, options @@ DefaultsGiven, DEFAULT_OPTIONS).result
  /\ (pc = "clipped" /\ DOMAIN options = {"url"}) =>
       result = ConvertCall(Defuddle(html).content,
                            [o \in {"baseUrl"} |-> options.url] @@ DefaultsGiven,
                            DEFAULT_OPTIONS).result


\* the name clip() sanitizes: the explicit file name when one is given,
\* the title of the page otherwise
NameToSanitize ==
  IF "filename" \in DOMAIN options /\ options.filename # <<>>
  THEN options.filename ELSE Defuddle(html).title

\* C18: the suggested file name of clip() is the sanitized explicit file
\* name, or the sanitized title when none is given; it is not empty, has at
\* most 245 characters, none of them # ^ [ ] |, and does not begin with a
\* period
C18_SuggestedFilenameIsSanitized ==
  pc = "clipped" =>
    /\ suggestedFilename = SanitizeFileName(NameToSanitize, platform)
    /\ suggestedFilename # <<>>
    /\ Len(suggestedFilename) <= 245
    /\ \A k \in DOMAIN suggestedFilename : suggestedFilename[k] \notin {"#", "^", "[", "]", "|"}
    /\ suggestedFilename[1] # "."

\* C19: the string convert() returns depends only on the document and the
\* options: two calls with equal arguments end the same way and return
\* equal strings, whatever calls of convert() or clip() came before or
\* between them on the same converter or default clipper
C19_EqualCallsReturnEqualStrings ==
  \A i, j \in DOMAIN calls :
     (calls[i].html = calls[j].html /\ calls[i].options = calls[j].options) =>
        /\ calls[i].outcome = calls[j].outcome
        /\ calls[i].result = calls[j].result

\* two calls with equal arguments have returned, and between them a call
\* with the same document and other options that returned another string
C19_Witness ==
  \E i, j, k \in DOMAIN calls :
     /\ i < j /\ j < k
     /\ calls[i].html = calls[k].html /\ calls[i].options = calls[k].options
     /\ calls[j].html = calls[i].html /\ calls[j].options # calls[i].options
     /\ calls[i].outcome = "returned" /\ calls[j].outcome = "returned"
     /\ calls[j].result # calls[i].result


\* the rule picked for an element when the filters of the added rules are
\* tried in the given order: the blank rule first, then the first added
\* rule of the order that matches, then the generic fallback
RuleInOrder(order, node, anc) ==
  LET matching == {k \in DOMAIN order : Matches(order[k], node, anc)}
  IN IF IsBlank(node) THEN "blank"
     ELSE IF matching = {} THEN RuleFor(node, anc)
     ELSE order[CHOOSE k \in matching : \A m \in matching : k <= m]

RECURSIVE ProcessInOrder(_, _, _, _, _, _)
\* the text written for the child nodes of parent when every element takes
\* the rule of RuleInOrder
ProcessInOrder(order, parent, anc, opts, k, output) ==
  IF k > Len(parent.kids) THEN output
  ELSE LET node == parent.kids[k]
           below == <<parent>> \o anc
           content == IF IsEl(node) THEN ProcessInOrder(order, node, below, opts, 1, <<>>)
                      ELSE <<>>
           replacement ==
             IF IsEl(node)
             THEN (IF content \in Seq(STRING)
                   THEN Replacement(RuleInOrder(order, node, below), content, node, below, k, opts)
                   ELSE <<>>)
             ELSE IF \E a \in DOMAIN below : below[a].tag = "code" THEN node.text
             ELSE Escape(node.text)
           joined == Join(output, replacement)
       IN IF replacement \in Seq(STRING) /\ joined \in Seq(STRING)
          THEN ProcessInOrder(order, parent, anc, opts, k + 1, joined)
          ELSE <<>>

\* the markdown of the converted document when every element takes the
\* rule of RuleInOrder
MarkdownInOrder(order) ==
  IF processedHtml = <<>> THEN <<>>
  ELSE DropTrailing(
         DropLeading(
           ProcessInOrder(order, [RootNode EXCEPT !.kids = CollapseWhitespace(processedHtml)],
                          <<>>, MergeOptions(DEFAULT_OPTIONS, options), 1, <<>>),
           {TAB, NL}),
         {TAB, NL, SP})

\* the priority order as stated: tables, lists and list items, figures,
\* embeds, highlight, strikethrough, math (MathJax, MathML, KaTeX),
\* callouts, code, citations, footnote list, removals
StatedOrder ==
  <<"table", "list", "listItem", "figure", "embedToMarkdown", "highlight",
    "strikethrough", "MathJax", "math", "katex", "callout", "preformattedCode",
    "citations", "footnotesList", "removals", "removeHiddenElements">>

\* the stated order read from its end
ReverseOrder ==
  <<"removeHiddenElements", "removals", "footnotesList", "citations",
    "preformattedCode", "callout", "katex", "math", "MathJax", "strikethrough",
    "highlight", "embedToMarkdown", "figure", "listItem", "list", "table">>

\* C20 as stated: every element takes exactly one rule, the first of the
\* order tables, lists, figures, embeds, highlight, strikethrough, math,
\* callouts, code, citations, footnote list, removals whose filter matches
\* it, or the generic fallback when none does
C20_FirstRuleInStatedOrderApplies ==
  Returned => markdown = MarkdownInOrder(StatedOrder)

\* C20, amended: every element takes exactly one rule; an element that
\* the filters of two added rules match takes the one registered later,
\* so the priority order is removals (hidden elements, then footnote
\* back-references), footnote list, citations, code, callouts, math (KaTeX,
\* MathML, MathJax), strikethrough, highlight, embeds, figures, list items,
\* lists, tables, and then the generic fallback
C20_LastRegisteredRuleApplies ==
  Returned => markdown = MarkdownInOrder(ReverseOrder)

\* a document has been converted in which the two orders give an element
\* different rules and different text
C20_Witness ==
  /\ Returned
  /\ \E k \in DOMAIN processedHtml :
       /\ IsEl(processedHtml[k])
       /\ Cardinality({r \in DOMAIN StatedOrder :
                         Matches(StatedOrder[r], processedHtml[k], <<RootNode>>)}) >= 2
  /\ MarkdownInOrder(StatedOrder) # MarkdownInOrder(ReverseOrder)

\* the tree the engine walks for the converted document
ConvertedRoot == [RootNode EXCEPT !.kids = CollapseWhitespace(processedHtml)]

\* the places of the pre elements at the top of the converted document
PreElements ==
  {k \in DOMAIN ConvertedRoot.kids :
     IsEl(ConvertedRoot.kids[k]) /\ ConvertedRoot.kids[k].tag = "pre"}

\* what the engine writes for the k-th node of the converted document
WrittenFor(k) ==
  ReplacementForNode(ConvertedRoot.kids[k], <<ConvertedRoot>>, k,
                     MergeOptions(DEFAULT_OPTIONS, options))

\* the already-converted child content of the k-th node
ContentOf(k) ==
  Process(ConvertedRoot.kids[k], <<ConvertedRoot>>, MergeOptions(DEFAULT_OPTIONS, options))

C22_TruncatedFitsMaxLength ==
  truncated # <<>> =>
    LET returned == truncated[1]
    IN /\ Len(textToTruncate) <= maxLength => returned = textToTruncate
       /\ Len(textToTruncate) > maxLength =>
            /\ Len(returned) = maxLength
            /\ Len(returned) >= 3
            /\ SubSeq(returned, Len(returned) - 2, Len(returned)) = <<".", ".", ".">>
       /\ Len(returned) <= maxLength

\* the options of the conversion made
OptionsOfCall == MergeOptions(DEFAULT_OPTIONS, options)

\* the label of a footnote item: its id without the prefix `fn:` or
\* `cite_note-`, in lower case
FootnoteLabel(li) ==
  ToLowerCase(IF Attr(li, "id") # <<>> /\ Head(Attr(li, "id")) \in {"fn:", "cite_note-"}
              THEN Tail(Attr(li, "id")) ELSE Attr(li, "id"))

\* the body of a footnote item: the markdown of its content without the
\* sup marker that repeats the item's own id and without the trailing
\* return arrow
FootnoteBody(li) ==
  LET own == IF Attr(li, "id") # <<>> /\ Head(Attr(li, "id")) \in {"fn:", "cite_note-"}
             THEN Tail(Attr(li, "id")) ELSE Attr(li, "id")
      sups == QueryAll(li, {"sup"})
      unmarked == IF sups # <<>> /\ Trim(TextContent(sups[1])) = own
                  THEN [li EXCEPT !.kids = RemoveFirst(li.kids, "sup")] ELSE li
      written == Turndown(GetElementHTML(unmarked), OptionsOfCall)
      n == Len(written)
  IN Trim(IF n >= 2 /\ written[n - 1] = "&#8617;" /\ written[n] = "&#65038;"
          THEN SubSeq(written, 1, n - 2) ELSE written)

\* the visible footnote containers at the top of the converted document:
\* the elements with id `footnotes` whose first child is an ordered list
FootnoteContainers ==
  {k \in DOMAIN ConvertedRoot.kids :
     LET container == ConvertedRoot.kids[k]
     IN /\ IsEl(container)
        /\ Attr(container, "id") = <<"footnotes">>
        /\ container.kids # <<>>
        /\ IsEl(container.kids[1]) /\ container.kids[1].tag = "ol"
        /\ ~IsBlank(container.kids[1])}

\* the visible citation markers at the top of the converted document
CitationMarkers ==
  {k \in DOMAIN ConvertedRoot.kids :
     LET sup == ConvertedRoot.kids[k]
     IN /\ IsEl(sup) /\ sup.tag = "sup"
        /\ StartsWith(Attr(sup, "id"), <<"fnref:">>)
        /\ Attr(sup, "style") # <<"display:none">>
        /\ ~IsBlank(sup)}

LabelsClosedBy(closing) ==
  {SubSeq(markdown, a + 1, b - 1) :
     <<a, b>> \in {ab \in (DOMAIN markdown) \X (DOMAIN markdown) :
                     /\ ab[1] < ab[2]
                     /\ markdown[ab[1]] = "[^"
                     /\ markdown[ab[2]] = closing
                     /\ \A c \in (ab[1] + 1)..(ab[2] - 1) :
                          markdown[c] \notin {"[^", "]", "]:"}}}

\* the identifiers X for which the converted document holds both a
\* citation marker sup#fnref:X and a footnote item li#fn:X
LinkedFootnotes ==
  LET nodes == Descendants([RootNode EXCEPT !.kids = processedHtml])
      idsOf(tag, prefix) ==
        {Tail(Attr(nodes[k], "id")) :
           k \in {j \in DOMAIN nodes : /\ nodes[j].tag = tag
                                       /\ StartsWith(Attr(nodes[j], "id"), <<prefix>>)
                                       /\ Attr(nodes[j], "style") = <<>>}}
  IN idsOf("sup", "fnref:") \cap idsOf("li", "fn:")

\* C28: when a citation marker sup#fnref:X and a footnote item li#fn:X
\* carry the same identifier X, the label written for the reference,
\* `[^...]`, is the label written for the definition, `[^...]:`
C28_ReferenceAndDefinitionShareLabel ==
  (Returned /\ LinkedFootnotes # {}) => LabelsClosedBy("]") = LabelsClosedBy("]:")

\* C24: an attribute value with a non-standard scheme, written
\* scheme://segment/path: when the segment after the scheme contains a dot
\* the result is the value with only the scheme replaced by the scheme of
\* the base page; otherwise the result is base-origin + `/` + path,
\* whatever the directory of the base URL
C24_NonStandardSchemeRerootedAtOrigin ==
  Processed =>
     \A k \in DOMAIN DescendantsOf(html) : \A a \in {"src", "href"} :
        LET before == DescendantsOf(html)[k]
            after == DescendantsOf(processedHtml)[k]
            value == before.attrs[a]
            base == ParseUrl(options.baseUrl, BadUrl)
        IN (/\ before.tag \in {"img", "a"}
            /\ HasAttr(before, a)
            /\ Len(value) >= 5
            /\ value[1] \in Schemes \ {"http:", "https:"}
            /\ value[2] = "/" /\ value[3] = "/" /\ value[5] = "/") =>
             after.attrs[a] =
               IF value[4] \in DottedTokens
               THEN <<base.protocol>> \o Tail(value)
               ELSE Origin(base) \o <<"/">> \o SubSeq(value, 6, Len(value))

\* the places of the math elements at the top of the converted document,
\* outside any table
MathElements ==
  {k \in DOMAIN ConvertedRoot.kids :
     /\ IsEl(ConvertedRoot.kids[k])
     /\ RuleFor(ConvertedRoot.kids[k], <<ConvertedRoot>>) \in {"MathJax", "math", "katex"}}

\* the source of a math element declares block rendering: display=block
\* on the element or on its math element, or a display class
DeclaresBlock(node) ==
  \E k \in DOMAIN (<<node>> \o Descendants(node)) :
     LET d == (<<node>> \o Descendants(node))[k]
     IN \/ Attr(d, "display") = <<"block">>
        \/ ClassList(d) \cap {"mwe-math-fallback-image-display", "display",
                              "math-display", "katex-display"} # {}

\* C25: in each of the three notations a math element outside any table
\* is written in block form, `$$` on its own lines around the LaTeX, only
\* when its source declares block rendering, and inline, `$latex$`, in
\* every other case, the case of no display information included
C25_BlockOnlyWhenDeclared ==
  (Returned /\ html \in MathDocs) =>
     \A k \in MathElements :
        /\ Includes(WrittenFor(k), <<"$", "$">>) => DeclaresBlock(ConvertedRoot.kids[k])
        /\ ~DeclaresBlock(ConvertedRoot.kids[k]) =>
             /\ ContainsToken(WrittenFor(k), "$")
             /\ ~Includes(WrittenFor(k), <<"$", "$">>)

\* the elements of the converted document that the removal rules name: an
\* element hidden by its display style, an element whose href contains
\* `#fnref`, an element with the class footnote-backref
RemovedElements ==
  SelectSeq(Descendants(ConvertedRoot),
            LAMBDA d : \/ Attr(d, "style") = <<"display:none">>
                       \/ \E k \in DOMAIN Attr(d, "href") :
                            Attr(d, "href")[k] \in {"#fnref", "#fnref:"}
                       \/ "footnote-backref" \in ClassList(d))

\* C26: every element hidden by its display style, every element whose
\* href contains `#fnref` and every element with the class
\* footnote-backref contributes the empty string to the output, with all
\* of its descendants, whatever its tag and whatever other rule matches
\* it: what the engine writes for it is empty, and no text of it is in the
\* returned string
C26_RemovedElementsContributeNothing ==
  Returned =>
    /\ \A k \in DOMAIN ConvertedRoot.kids :
         (\E r \in DOMAIN RemovedElements : RemovedElements[r] = ConvertedRoot.kids[k])
           => WrittenFor(k) = <<>>
    /\ \A r \in DOMAIN RemovedElements :
         \A t \in DOMAIN TextContent(RemovedElements[r]) :
            ~ContainsToken(result, TextContent(RemovedElements[r])[t])


\* the positions in walkLog of the given event for the node at the given
\* path in the given call of turndown
EventsOf(event, inv, path) ==
  {j \in DOMAIN walkLog :
     walkLog[j].event = event /\ walkLog[j].inv = inv /\ walkLog[j].path = path}

\* what the k-th child node of the node of walkLog[j] was converted to
ChildOutput(j, k) ==
  LET e == walkLog[j]
      c == CHOOSE c \in EventsOf(IF IsEl(e.node.kids[k]) THEN "Emitted" ELSE "Text",
                                 e.inv, Append(e.path, k)) : TRUE
  IN walkLog[c].text

RECURSIVE JoinedChildOutputs(_, _)
\* the outputs of the first n child nodes of the node of walkLog[j], joined
\* in document order
JoinedChildOutputs(j, n) ==
  IF n = 0 THEN <<>> ELSE Join(JoinedChildOutputs(j, n - 1), ChildOutput(j, n))

C29_EveryIterationAdvances ==
  logseqPc = "parsing" /\ lineIndex < Len(lines) =>
    LoopIteration(lines, lineIndex, rootBlocks, headingStack).i > lineIndex

\* the block insertions among the first n editor calls that the call of
\* insertBlocksRecursively for the given parentBlockUUID made
InsertionsAt(level, n) ==
  {m \in 1..n : /\ editorCalls[m].level = level
                /\ editorCalls[m].method \in {"appendBlockInPage", "insertBlock"}}

\* C30: at every level the first block is appended to the page or inserted
\* as a child of the parent block, every later block is inserted as the
\* sibling of the block inserted before it, and a call with sibling: true
\* is given the UUID of a block inserted earlier at the same level
C30_InsertionKeepsOrderAndHierarchy ==
  logseqPc = "inserted" =>
    \A j \in DOMAIN editorCalls :
      LET call == editorCalls[j]
          earlier == InsertionsAt(call.level, j - 1)
          previous == CHOOSE m \in earlier : \A n \in earlier : n <= m
      IN j \in InsertionsAt(call.level, j) /\ call.level # <<>> =>
           IF earlier = {}
           THEN ~call.sibling /\ call.target = call.level
           ELSE /\ call.sibling
                /\ call.target # Undefined
                /\ call.target = editorCalls[previous].returned

=============================================================================
